---- MODULE Spec2Model ----
(***************************************************************************)
(* Model of the graph store (store: addNodesAndEdges, updateNode,          *)
(* removeNode, bulkDeleteSelection, mergeNodes, selection) and of the      *)
(* enrichment pipeline enrichGraphWithMetrics with its sub-steps.          *)
(*                                                                         *)
(* Numbers.  Every fractional metric is held in millionths (SCALE), the    *)
(* precision enrichGraphWithMetrics keeps (toFixed(6)); a quotient is      *)
(* rounded to a millionth.  NaN is the value JavaScript produces for        *)
(* undefined / n.                                                          *)
(*                                                                         *)
(* Centralities.  services/graphService.ts delegates degree centrality,    *)
(* PageRank, betweenness and closeness to the third-party cytoscape        *)
(* library, whose code is not part of this repository.  The repository's   *)
(* own implementations of degree centrality and PageRank                   *)
(* (calculateDegreeCentrality, calculatePageRank) are the ones modelled;   *)
(* betweenness and closeness have no implementation in the repository and  *)
(* are not modelled.                                                       *)
(***************************************************************************)
EXTENDS Integers, Sequences, FiniteSets, TLC

\* ------------------------------------------------------------------ bounds
MaxNodes == 3        \* longest node list the store is driven to
MaxEdges == 3        \* number of edges the store creates in one run
MaxArgNodes == 3     \* longest node list handed to enrich directly
MaxArgEdges == 3     \* longest edge list handed to enrich directly
MaxDupeNodes == 3    \* longest node list handed to detectDuplicates directly
MaxRuns == 2         \* detectDuplicatesSemantic calls in progress at one time
MaxVectorLen == 2    \* longest vector handed to cosineSimilarity directly
MaxRegionNodes == 3  \* longest node list handed to calculateRegionalMetrics
MaxRegionEdges == 2  \* longest edge list handed to calculateRegionalMetrics

\* ------------------------------------------------------- program constants
SCALE == 1000000
PageRankIterations == 20
DampingPct == 85
BridgeLimit == 5           \* .slice(0, 5) in calculateRegionalMetrics
PrefixLimit == 30          \* nodes.slice(0, 30) in detectDuplicatesSemantic
TriangleLimit == 200
NaN == -1

\* ------------------------------------------------------------- value sets
Ids == {"a", "b", "c"}
NodeLabels == {"Dmowski", "Roman Dmowski"}
NoLabel == <<>>
Rywal == <<"R", "y", "w", "a", "l">>
Sojusz == <<"s", "o", "j", "u", "s", "z">>
NiePrzeciwny == <<"n", "i", "e", "P", "R", "Z", "E", "C", "I", "W", "n", "y">>
Undefined == "undefined"
ModularityDraws == {400000, 499999}

\* ---------------------------------------------------------------- helpers
Min2(x, y) == IF x < y THEN x ELSE y

RECURSIVE SeqMax(_, _)
SeqMax(s, floor) ==
  IF s = <<>> THEN floor
  ELSE LET m == SeqMax(Tail(s), floor) IN IF Head(s) > m THEN Head(s) ELSE m

MapNodeIds(nodes) == [i \in 1..Len(nodes) |-> nodes[i].id]

NodeIdSet(nodes) == {nodes[i].id : i \in 1..Len(nodes)}


\* num / den in millionths, to the nearest millionth
Ratio(num, den) == (2 * num * SCALE + den) \div (2 * den)

\* String.prototype.toLowerCase, character by character
UpperCase == <<"A","B","C","D","E","F","G","H","I","J","K","L","M",
               "N","O","P","Q","R","S","T","U","V","W","X","Y","Z">>
LowerCase == <<"a","b","c","d","e","f","g","h","i","j","k","l","m",
               "n","o","p","q","r","s","t","u","v","w","x","y","z">>
toLowerCaseChar(ch) ==
  IF \E i \in 1..Len(UpperCase) : UpperCase[i] = ch
  THEN LowerCase[CHOOSE i \in 1..Len(UpperCase) : UpperCase[i] = ch]
  ELSE ch

\* the label matched as written, case and all
toLowerCaseOmitted(text) == text

RECURSIVE toLowerCase(_)
toLowerCase(text) ==
  IF text = <<>> THEN <<>>
  ELSE <<toLowerCaseChar(Head(text))>> \o toLowerCase(Tail(text))

\* String.prototype.includes
includes(text, kw) ==
  \E i \in 1..(Len(text) - Len(kw) + 1) : SubSeq(text, i, i + Len(kw) - 1) = kw

\* ------------------------------------------------------ processEdgeMetrics
negativeKeywords ==
  { <<"c","o","n","f","l","i","c","t">>, <<"r","i","v","a","l">>,
    <<"a","n","t","i">>, <<"a","g","a","i","n","s","t">>,
    <<"e","n","e","m","y">>, <<"o","p","p","o","n","e","n","t">>,
    <<"f","i","g","h","t">>, <<"k","o","n","f","l","i","k","t">>,
    <<"r","y","w","a","l">>, <<"p","r","z","e","c","i","w">>,
    <<"w","r","o">> }

isNegative(label) ==
  LET text == toLowerCase(label) IN \E kw \in negativeKeywords : includes(text, kw)

processEdgeAlwaysHeuristic(e) ==
  [e EXCEPT !.sign = IF isNegative(e.label) THEN "negative" ELSE "positive",
            !.certainty = "confirmed"]

processEdge(e) ==
  [e EXCEPT
     !.sign = IF e.sign # Undefined THEN e.sign
              ELSE IF isNegative(e.label) THEN "negative" ELSE "positive",
     !.certainty = IF e.certainty # Undefined THEN e.certainty ELSE "confirmed"]

RECURSIVE processEdgeMetrics(_)
processEdgeMetrics(edges) ==
  IF edges = <<>> THEN <<>>
  ELSE <<processEdge(Head(edges))>> \o processEdgeMetrics(Tail(edges))

\* ----------------------------------------------- calculateDegreeCentrality
\* centrality[id] after the edge loop: one increment per edge end on id
rawDegree(g, id) ==
  LET IsSource(e) == e.source = id
      IsTarget(e) == e.target = id
  IN Len(SelectSeq(g.edges, IsSource)) + Len(SelectSeq(g.edges, IsTarget))

RECURSIVE rawDegrees(_, _)
rawDegrees(g, nodes) ==
  IF nodes = <<>> THEN <<>>
  ELSE <<rawDegree(g, Head(nodes).id)>> \o rawDegrees(g, Tail(nodes))

calculateDegreeCentrality(g, id) ==
  LET max == SeqMax(rawDegrees(g, g.nodes), 1)
  IN Ratio(rawDegree(g, id), max)

\* ------------------------------------------------------- calculatePageRank
\* ranks is a sequence aligned with g.nodes (ranks[node.id] of the code: nodes
\* sharing an id share the value).  What a round reads from the graph alone
\* (each node's incoming edges, each source's position and out-degree) is the
\* same in every round and is computed once, as incomingOf.
NumAdd(x, y) == IF x = NaN \/ y = NaN THEN NaN ELSE x + y

\* position of the node ranks[sourceId] reads; 0 when ranks[sourceId] is undefined
sourceIndex(g, sourceId) ==
  IF sourceId \in NodeIdSet(g.nodes)
  THEN CHOOSE i \in 1..Len(g.nodes) : g.nodes[i].id = sourceId
  ELSE 0

rankOf(g, ranks, id) ==
  IF sourceIndex(g, id) = 0 THEN NaN ELSE ranks[sourceIndex(g, id)]

RECURSIVE incomingTerms(_, _)
incomingTerms(g, incomingEdges) ==
  IF incomingEdges = <<>> THEN <<>>
  ELSE LET sourceId == Head(incomingEdges).source
           FromSource(e) == e.source = sourceId
       IN <<[source |-> sourceIndex(g, sourceId),
             outDegree |-> Len(SelectSeq(g.edges, FromSource))]>>
          \o incomingTerms(g, Tail(incomingEdges))

RECURSIVE incomingOf(_, _)
incomingOf(g, nodes) ==
  IF nodes = <<>> THEN <<>>
  ELSE LET Incoming(e) == e.target = Head(nodes).id
       IN <<incomingTerms(g, SelectSeq(g.edges, Incoming))>> \o incomingOf(g, Tail(nodes))

RECURSIVE incomingSumOf(_, _)
incomingSumOf(ranks, terms) ==
  IF terms = <<>> THEN 0
  ELSE LET t == Head(terms)
           r == IF t.source = 0 THEN NaN ELSE ranks[t.source]
           term == IF t.outDegree > 0
                   THEN (IF r = NaN THEN NaN ELSE r \div t.outDegree)
                   ELSE 0
       IN NumAdd(term, incomingSumOf(ranks, Tail(terms)))

newRankOf(ranks, N, terms) ==
  LET incomingSum == incomingSumOf(ranks, terms)
  IN IF incomingSum = NaN THEN NaN
     ELSE ((100 - DampingPct) * SCALE) \div (100 * N)
          + (DampingPct * incomingSum) \div 100

RECURSIVE newRanks(_, _, _)
newRanks(ranks, N, incoming) ==
  IF incoming = <<>> THEN <<>>
  ELSE <<newRankOf(ranks, N, Head(incoming))>> \o newRanks(ranks, N, Tail(incoming))

RECURSIVE initialRanks(_, _)
initialRanks(N, nodes) ==
  IF nodes = <<>> THEN <<>> ELSE <<SCALE \div N>> \o initialRanks(N, Tail(nodes))

\* the Len tests only make a value be computed before the next round starts
RECURSIVE pageRankLoop(_, _, _, _)
pageRankLoop(incoming, N, ranks, i) ==
  IF i >= PageRankIterations THEN ranks
  ELSE LET round == newRanks(ranks, N, incoming)
       IN IF Len(round) = N THEN pageRankLoop(incoming, N, round, i + 1) ELSE round

calculatePageRank(g) ==
  LET N == Len(g.nodes)
      incoming == incomingOf(g, g.nodes)
  IN IF N = 0 THEN <<>>
     ELSE IF Len(incoming) = N
          THEN pageRankLoop(incoming, N, initialRanks(N, g.nodes), 0)
          ELSE <<>>

\* ------------------------------------------- calculateClusteringCoefficient
\* adj.get(id): both ends of an edge must be node ids for it to count
adjacency(nodes, edges, id) ==
  LET ids == NodeIdSet(nodes)
      valid == {i \in 1..Len(edges) : edges[i].source \in ids /\ edges[i].target \in ids}
  IN {edges[i].target : i \in {j \in valid : edges[j].source = id}}
     \cup {edges[i].source : i \in {j \in valid : edges[j].target = id}}

calculateClusteringCoefficient(nodes, edges, id) ==
  LET neighbors == adjacency(nodes, edges, id)
      k == Cardinality(neighbors)
      links == Cardinality({pair \in SUBSET neighbors :
                 /\ Cardinality(pair) = 2
                 /\ \E x \in pair : \E y \in pair :
                      x # y /\ y \in adjacency(nodes, edges, x)})
  IN IF k < 2 THEN 0 ELSE Ratio(2 * links, k * (k - 1))

\* -------------------------------------------------------- detectCommunities
RECURSIVE neighborsOf(_, _)
neighborsOf(edges, current) ==
  IF edges = <<>> THEN <<>>
  ELSE LET e == Head(edges)
       IN (IF e.source = current \/ e.target = current
           THEN <<IF e.source = current THEN e.target ELSE e.source>>
           ELSE <<>>) \o neighborsOf(Tail(edges), current)

RECURSIVE visitNeighbors(_, _, _)
visitNeighbors(neighbors, st, communityId) ==
  IF neighbors = <<>> THEN st
  ELSE LET neighbor == Head(neighbors)
       IN IF neighbor \notin st.visited
          THEN visitNeighbors(Tail(neighbors),
                 [queue |-> Append(st.queue, neighbor),
                  visited |-> st.visited \cup {neighbor},
                  communities |-> (neighbor :> communityId) @@ st.communities],
                 communityId)
          ELSE visitNeighbors(Tail(neighbors), st, communityId)

RECURSIVE bfsLoop(_, _, _)
bfsLoop(g, st, communityId) ==
  IF st.queue = <<>> THEN st
  ELSE LET current == Head(st.queue)
       IN bfsLoop(g,
            visitNeighbors(neighborsOf(g.edges, current),
                           [st EXCEPT !.queue = Tail(st.queue)], communityId),
            communityId)

bfs(g, st, startNodeId, communityId) ==
  bfsLoop(g, [queue |-> <<startNodeId>>,
              visited |-> st.visited \cup {startNodeId},
              communities |-> (startNodeId :> communityId) @@ st.communities],
          communityId)

RECURSIVE detectLoop(_, _, _, _)
detectLoop(g, nodes, st, nextCommunityId) ==
  IF nodes = <<>> THEN st.communities
  ELSE IF Head(nodes).id \notin st.visited
       THEN detectLoop(g, Tail(nodes), bfs(g, st, Head(nodes).id, nextCommunityId),
                       nextCommunityId + 1)
       ELSE detectLoop(g, Tail(nodes), st, nextCommunityId)

detectCommunities(g) ==
  detectLoop(g, g.nodes, [queue |-> <<>>, visited |-> {}, communities |-> <<>>], 0)

\* ---------------------------------------------------- calculateTriadicBalance
\* adj[u][v]: 0 stands for undefined; a later edge between the pair overwrites
adjSign(edges, u, v) ==
  LET between == {i \in 1..Len(edges) :
                    \/ edges[i].source = u /\ edges[i].target = v
                    \/ edges[i].source = v /\ edges[i].target = u}
      last == CHOOSE i \in between : \A j \in between : j <= i
  IN IF between = {} THEN 0
     ELSE IF edges[last].sign = "negative" THEN -1 ELSE 1

\* the triple loop's two counters.  A triple i < j < k counts when uv, vw and wu
\* are all defined; the pairs with a defined sign are collected first, the
\* triples are then the chains of two such pairs closed by a third
countTriangles(g) ==
  LET nodeIds == MapNodeIds(g.nodes)
      limit == Min2(Len(nodeIds), TriangleLimit)
      sign(i, j) == adjSign(g.edges, nodeIds[i], nodeIds[j])
      linked == {p \in (1..limit) \X (1..limit) : p[1] < p[2] /\ sign(p[1], p[2]) # 0}
      triples == {t \in {<<pq[1][1], pq[1][2], pq[2][2]>> :
                           pq \in {x \in linked \X linked : x[1][2] = x[2][1]}} :
                    sign(t[3], t[1]) # 0}
      product(t) == sign(t[1], t[2]) * sign(t[2], t[3]) * sign(t[3], t[1])
  IN [totalTriangles |-> Cardinality(triples),
      balancedTriangles |-> Cardinality({t \in triples : product(t) > 0})]

\* calculateTriadicBalance dividing without the totalTriangles > 0 test: 0 / 0
calculateTriadicBalanceUnguarded(g) ==
  LET c == countTriangles(g)
  IN IF c.totalTriangles = 0 THEN NaN
     ELSE Ratio(c.balancedTriangles, c.totalTriangles)

calculateTriadicBalance(g) ==
  LET c == countTriangles(g)
  IN IF c.totalTriangles > 0 THEN Ratio(c.balancedTriangles, c.totalTriangles)
     ELSE SCALE

\* ---------------------------------------------------- enrichGraphWithMetrics
NoMeta == [defined |-> FALSE, modularity |-> 0, globalBalance |-> 0]

\* the derived fields alone, the node's own data not spread into the result
enrichNodeMetricsOnly(g, pr, comm, node) ==
  LET dc == calculateDegreeCentrality(g, node.id)
  IN [degreeCentrality |-> dc,
      pagerank |-> rankOf(g, pr, node.id),
      clustering |-> calculateClusteringCoefficient(g.nodes, g.edges, node.id),
      community |-> comm[node.id],
      kCore |-> (dc * 10) \div SCALE]

enrichNode(g, pr, comm, node) ==
  LET dc == calculateDegreeCentrality(g, node.id)
  IN [degreeCentrality |-> dc,
      pagerank |-> rankOf(g, pr, node.id),
      clustering |-> calculateClusteringCoefficient(g.nodes, g.edges, node.id),
      community |-> comm[node.id],
      kCore |-> (dc * 10) \div SCALE] @@ node

RECURSIVE enrichNodes(_, _, _, _)
enrichNodes(g, pr, comm, nodes) ==
  IF nodes = <<>> THEN <<>>
  ELSE <<enrichNode(g, pr, comm, Head(nodes))>> \o enrichNodes(g, pr, comm, Tail(nodes))

\* the balance taken from the edges as given, not from the processed edges
enrichGraphWithMetricsRawBalance(graph, modularity) ==
  LET pr == calculatePageRank(graph)
      comm == detectCommunities(graph)
      processedEdges == processEdgeMetrics(graph.edges)
  IN [nodes |-> enrichNodes(graph, pr, comm, graph.nodes),
      edges |-> processedEdges,
      meta |-> [defined |-> TRUE,
                modularity |-> modularity,
                globalBalance |-> calculateTriadicBalance(graph)]]

enrichGraphWithMetrics(graph, modularity) ==
  LET pr == calculatePageRank(graph)
      comm == detectCommunities(graph)
      processedEdges == processEdgeMetrics(graph.edges)
      tempGraph == [graph EXCEPT !.edges = processedEdges]
  IN [nodes |-> enrichNodes(graph, pr, comm, graph.nodes),
      edges |-> processedEdges,
      meta |-> [defined |-> TRUE,
                modularity |-> modularity,
                globalBalance |-> calculateTriadicBalance(tempGraph)]]

\* ========================================================== the graph store
VARIABLES graph, selectedNodeIds, nextEdgeId, lastMerge, arg, result,
          dupeCandidates, accepted, embeddingsCache, runs, returned,
          isThinking, inFlight,
          snapshot, storageOps, lastMutation, autoSave

vars == <<graph, selectedNodeIds, nextEdgeId, lastMerge, arg, result,
          dupeCandidates, accepted, embeddingsCache, runs, returned,
          isThinking, inFlight,
          snapshot, storageOps, lastMutation, autoSave>>

\* the duplicate grooming state: the sidebar's candidate list, the candidate
\* the latest handleMerge accepted (none once the list is computed anew), the
\* embedding cache, the
\* detectDuplicatesSemantic calls in progress, and for each text the first
\* non-empty vector getEmbedding has returned for it
groomVars == <<dupeCandidates, accepted, embeddingsCache, runs, returned>>

NoAccepted == [valid |-> FALSE]

GroomIdle ==
  /\ dupeCandidates = <<>>
  /\ accepted = NoAccepted
  /\ embeddingsCache = <<>>
  /\ runs = <<>>
  /\ returned = <<>>

EmptyGraph == [nodes |-> <<>>, edges |-> <<>>, meta |-> NoMeta]
NoResult == [done |-> FALSE, graph |-> EmptyGraph]

\* the shared busy flag and the asynchronous handlers (chat, expansion,
\* semantic grooming) that have started and not yet finished
thinkingVars == <<isThinking, inFlight>>

\* the record 'current' of the storage; the storage requests issued and not
\* yet carried out, in the order issued; the graph the latest of
\* addNodesAndEdges, updateNode, removeNode, bulkDeleteSelection and mergeNodes
\* stored (none before the first); whether initGraph has set the auto-save
\* interval going.  Followed under SpecPersist: the other specifications
\* follow the store's state in memory.
persistVars == <<snapshot, storageOps, lastMutation, autoSave>>

NoSnapshot == [present |-> FALSE, graph |-> EmptyGraph]
NoMutation == [valid |-> FALSE, graph |-> EmptyGraph]

AsyncIdle ==
  /\ isThinking = FALSE
  /\ inFlight = <<>>
  /\ snapshot = NoSnapshot
  /\ storageOps = <<>>
  /\ lastMutation = NoMutation
  /\ autoSave = FALSE

\* lastMerge.valid: the stored graph is what the latest mergeNodes(keepId,
\* dropId) call stored.  About the graph that call started from: both, it held
\* both nodes; repointed, how many of its edges had dropId as an end and did not
\* become self-loops; oldLoops, how many were self-loops already; newLoops, how
\* many became self-loops by the replacement
NoMerge == [valid |-> FALSE, keepId |-> Undefined, dropId |-> Undefined,
            both |-> FALSE, repointed |-> 0, oldLoops |-> 0, newLoops |-> 0]

\* ---------------------------------------------------------- addNodesAndEdges
RECURSIVE newNodesData(_)
newNodesData(newNodesRaw) ==
  IF newNodesRaw = <<>> THEN <<>>
  ELSE <<[id |-> Head(newNodesRaw).id, label |-> Head(newNodesRaw).label]>>
       \o newNodesData(Tail(newNodesRaw))

\* ids come from Date.now() and Math.random(): a fresh id per edge
RECURSIVE newEdgesData(_, _)
newEdgesData(newEdgesRaw, firstId) ==
  IF newEdgesRaw = <<>> THEN <<>>
  ELSE <<[id |-> firstId,
          source |-> Head(newEdgesRaw).source,
          target |-> Head(newEdgesRaw).target,
          label |-> Head(newEdgesRaw).relationship,
          sign |-> Undefined,
          certainty |-> Undefined]>>
       \o newEdgesData(Tail(newEdgesRaw), firstId + 1)

addNodesAndEdges(g, newNodesRaw, newEdgesRaw, firstId, modularity) ==
  LET existingIds == NodeIdSet(g.nodes)
      IsNew(n) == n.id \notin existingIds
      uniqueNodes == SelectSeq(newNodesData(newNodesRaw), IsNew)
      uniqueEdges == newEdgesData(newEdgesRaw, firstId)
      updatedGraph == [g EXCEPT !.nodes = g.nodes \o uniqueNodes,
                                !.edges = g.edges \o uniqueEdges]
  IN enrichGraphWithMetrics(updatedGraph, modularity)

\* ---------------------------------------------------------------- updateNode
RECURSIVE updateNodes(_, _, _)
updateNodes(nodes, id, data) ==
  IF nodes = <<>> THEN <<>>
  ELSE <<IF Head(nodes).id = id THEN [Head(nodes) EXCEPT !.label = data.label]
         ELSE Head(nodes)>>
       \o updateNodes(Tail(nodes), id, data)

updateNode(g, id, data, modularity) ==
  enrichGraphWithMetrics([g EXCEPT !.nodes = updateNodes(g.nodes, id, data)], modularity)

\* ---------------------------------------------------------------- removeNode
\* removeNode storing the filtered graph without recomputing the metrics
removeNodeWithoutEnrich(g, nodeId, modularity) ==
  LET KeepNode(n) == n.id # nodeId
      KeepEdge(e) == e.source # nodeId /\ e.target # nodeId
  IN [g EXCEPT !.nodes = SelectSeq(g.nodes, KeepNode),
               !.edges = SelectSeq(g.edges, KeepEdge)]

removeNode(g, nodeId, modularity) ==
  LET KeepNode(n) == n.id # nodeId
      KeepEdge(e) == e.source # nodeId /\ e.target # nodeId
  IN enrichGraphWithMetrics(
       [g EXCEPT !.nodes = SelectSeq(g.nodes, KeepNode),
                 !.edges = SelectSeq(g.edges, KeepEdge)], modularity)

\* ------------------------------------------------------- bulkDeleteSelection
SeqIncludes(s, x) == \E i \in 1..Len(s) : s[i] = x

bulkDeleteSelection(g, selected, modularity) ==
  LET KeepNode(n) == ~SeqIncludes(selected, n.id)
      KeepEdge(e) == ~SeqIncludes(selected, e.source) /\ ~SeqIncludes(selected, e.target)
  IN enrichGraphWithMetrics(
       [g EXCEPT !.nodes = SelectSeq(g.nodes, KeepNode),
                 !.edges = SelectSeq(g.edges, KeepEdge)], modularity)

\* ---------------------------------------------------------------- mergeNodes
RECURSIVE reassignEdges(_, _, _)
reassignEdges(edges, keepId, dropId) ==
  IF edges = <<>> THEN <<>>
  ELSE LET e == Head(edges)
       IN <<[e EXCEPT !.source = IF e.source = dropId THEN keepId ELSE e.source,
                      !.target = IF e.target = dropId THEN keepId ELSE e.target]>>
          \o reassignEdges(Tail(edges), keepId, dropId)

\* mergeNodes with the edges of dropId deleted instead of re-pointed
mergeNodesDroppingEdges(g, keepId, dropId, modularity) ==
  removeNode(g, dropId, modularity)

\* mergeNodes removing only the self-loops the replacement creates
mergeNodesKeepingOldLoops(g, keepId, dropId, modularity) ==
  LET KeepNode(n) == n.id # dropId
      NotBetween(e) == {e.source, e.target} # {keepId, dropId} \/ e.source = e.target
  IN enrichGraphWithMetrics(
       [g EXCEPT !.nodes = SelectSeq(g.nodes, KeepNode),
                 !.edges = reassignEdges(SelectSeq(g.edges, NotBetween), keepId, dropId)],
       modularity)

mergeNodes(g, keepId, dropId, modularity) ==
  LET updatedEdges == reassignEdges(g.edges, keepId, dropId)
      KeepNode(n) == n.id # dropId
      NotLoop(e) == e.source # e.target
      updatedNodes == SelectSeq(g.nodes, KeepNode)
      finalEdges == SelectSeq(updatedEdges, NotLoop)
  IN enrichGraphWithMetrics(
       [g EXCEPT !.nodes = updatedNodes, !.edges = finalEdges], modularity)

\* ------------------------------------------------------- toggleNodeSelection
toggleNodeSelection(selected, id, multi) ==
  LET Other(nid) == nid # id
  IN IF multi
     THEN IF SeqIncludes(selected, id) THEN SelectSeq(selected, Other)
          ELSE Append(selected, id)
     ELSE <<id>>

\* ------------------------------------------------------------ inputs, actions
RawNodes == [id : Ids, label : {"Dmowski"}]
RawEdge(s, t, r) == [source |-> s, target |-> t, relationship |-> r]
EdgeBatches == {<<RawEdge("a", "b", Sojusz)>>,
                <<RawEdge("b", "c", Rywal), RawEdge("c", "a", Sojusz)>>,
                <<RawEdge("a", "a", Sojusz)>>}
\* a batch is one node, the node c twice, or one of the edge batches
Batches ==
  {<<<<n>>, <<>>>> : n \in RawNodes}
  \cup {<<<<n, n>>, <<>>>> : n \in {m \in RawNodes : m.id = "c"}}
  \cup {<<<<>>, es>> : es \in EdgeBatches}
UpdatedIds == {"a"}
SelectableIds == {"c"}
\* <<keepId, dropId>>
MergePairs == {<<"a", "b">>, <<"b", "a">>, <<"c", "b">>, <<"a", "a">>,
               <<"b", "c">>}
StoreModularityDraws == {450000}

Init ==
  /\ graph = [nodes |-> <<>>, edges |-> <<>>, meta |-> NoMeta]
  /\ selectedNodeIds = <<>>
  /\ nextEdgeId = 1
  /\ lastMerge = NoMerge
  /\ arg = EmptyGraph
  /\ result = NoResult
  /\ GroomIdle
  /\ AsyncIdle

\* an edge that touches dropId and does not become a self-loop when dropId is
\* replaced by keepId
Repointed(e, keepId, dropId) ==
  /\ dropId \in {e.source, e.target}
  /\ (IF e.source = dropId THEN keepId ELSE e.source)
     # (IF e.target = dropId THEN keepId ELSE e.target)

AddNodesAndEdges ==
  \E b \in Batches : \E m \in StoreModularityDraws :
    /\ Len(graph.nodes) + Len(b[1]) <= MaxNodes
    /\ nextEdgeId + Len(b[2]) <= MaxEdges + 1
    /\ graph' = addNodesAndEdges(graph, b[1], b[2], nextEdgeId, m)
    /\ nextEdgeId' = nextEdgeId + Len(b[2])
    /\ lastMerge' = NoMerge
    /\ UNCHANGED <<groomVars, thinkingVars, persistVars>>
    /\ UNCHANGED <<selectedNodeIds, arg, result>>

UpdateNode ==
  \E id \in UpdatedIds : \E label \in NodeLabels : \E m \in StoreModularityDraws :
    /\ graph' = updateNode(graph, id, [label |-> label], m)
    /\ lastMerge' = NoMerge
    /\ UNCHANGED <<groomVars, thinkingVars, persistVars>>
    /\ UNCHANGED <<selectedNodeIds, nextEdgeId, arg, result>>

RemoveNode ==
  \E nodeId \in Ids : \E m \in StoreModularityDraws :
    /\ graph' = removeNode(graph, nodeId, m)
    /\ selectedNodeIds' = <<>>
    /\ lastMerge' = NoMerge
    /\ UNCHANGED <<groomVars, thinkingVars, persistVars>>
    /\ UNCHANGED <<nextEdgeId, arg, result>>

BulkDeleteSelection ==
  \E m \in StoreModularityDraws :
    /\ Len(selectedNodeIds) # 0
    /\ graph' = bulkDeleteSelection(graph, selectedNodeIds, m)
    /\ selectedNodeIds' = <<>>
    /\ lastMerge' = NoMerge
    /\ UNCHANGED <<groomVars, thinkingVars, persistVars>>
    /\ UNCHANGED <<nextEdgeId, arg, result>>

MergeNodes ==
  \E pair \in MergePairs : \E m \in StoreModularityDraws :
   LET keepId == pair[1]
       dropId == pair[2]
   IN
    /\ graph' = mergeNodes(graph, keepId, dropId, m)
    /\ lastMerge' = [valid |-> TRUE, keepId |-> keepId, dropId |-> dropId,
                     both |-> {keepId, dropId} \subseteq NodeIdSet(graph.nodes),
                     repointed |-> LET Test(e) == Repointed(e, keepId, dropId)
                                   IN Len(SelectSeq(graph.edges, Test)),
                     oldLoops |-> LET Test(e) == e.source = e.target
                                  IN Len(SelectSeq(graph.edges, Test)),
                     newLoops |-> LET Test(e) == /\ e.source # e.target
                                                 /\ {e.source, e.target} = {keepId, dropId}
                                  IN Len(SelectSeq(graph.edges, Test))]
    /\ UNCHANGED <<groomVars, thinkingVars, persistVars>>
    /\ UNCHANGED <<selectedNodeIds, nextEdgeId, arg, result>>

ToggleNodeSelection ==
  \E id \in NodeIdSet(graph.nodes) \cap SelectableIds : \E multi \in BOOLEAN :
    /\ selectedNodeIds' = toggleNodeSelection(selectedNodeIds, id, multi)
    /\ UNCHANGED <<groomVars, thinkingVars, persistVars>>
    /\ UNCHANGED <<graph, nextEdgeId, lastMerge, arg, result>>

ClearSelection ==
  /\ selectedNodeIds' = <<>>
  /\ UNCHANGED <<groomVars, thinkingVars, persistVars>>
  /\ UNCHANGED <<graph, nextEdgeId, lastMerge, arg, result>>

Next ==
  \/ AddNodesAndEdges
  \/ UpdateNode
  \/ RemoveNode
  \/ BulkDeleteSelection
  \/ MergeNodes
  \/ ToggleNodeSelection
  \/ ClearSelection

Spec == Init /\ [][Next]_vars

\* ===================================================== duplicate detection
\* Labels are sequences of characters.  A candidate's reason text is derived
\* from its similarity alone and is left out.
Liga == <<"L", "i", "g", "a">>
LIGA == <<"L", "I", "G", "A">>
Ligi == <<"L", "i", "g", "i">>
EmptyLabel == <<>>

Max2(x, y) == IF x > y THEN x ELSE y

\* ------------------------------------------------------ getLevenshteinDistance
getLevenshteinDistance(a, b) ==
  LET matrix[i \in 0..Len(b), j \in 0..Len(a)] ==
        IF i = 0 THEN j
        ELSE IF j = 0 THEN i
        ELSE IF b[i] = a[j] THEN matrix[i - 1, j - 1]
        ELSE Min2(matrix[i - 1, j - 1] + 1,
                  Min2(matrix[i, j - 1] + 1, matrix[i - 1, j] + 1))
  IN matrix[Len(b), Len(a)]

\* ------------------------------------------------------------ detectDuplicates
\* similarity computed as the distance share, the "1 -" forgotten
lexicalSimilarityInverted(n1, n2) ==
  LET dist == getLevenshteinDistance(toLowerCase(n1.label), toLowerCase(n2.label))
      maxLen == Max2(Len(n1.label), Len(n2.label))
  IN IF maxLen > 0 THEN Ratio(dist, maxLen) ELSE 0

lexicalSimilarity(n1, n2) ==
  LET dist == getLevenshteinDistance(toLowerCase(n1.label), toLowerCase(n2.label))
      maxLen == Max2(Len(n1.label), Len(n2.label))
  IN IF maxLen > 0 THEN SCALE - Ratio(dist, maxLen) ELSE 0

\* the inner loop's body without the type test
lexicalCandidateAnyType(n1, n2, threshold) ==
  LET similarity == lexicalSimilarity(n1, n2)
  IN IF similarity >= threshold
     THEN <<[nodeA |-> n1, nodeB |-> n2, similarity |-> similarity]>>
     ELSE <<>>

\* the inner loop's body: what the pair n1, n2 adds to candidates
lexicalCandidate(n1, n2, threshold) ==
  IF n1.type # n2.type THEN <<>>
  ELSE LET similarity == lexicalSimilarity(n1, n2)
       IN IF similarity >= threshold
          THEN <<[nodeA |-> n1, nodeB |-> n2, similarity |-> similarity]>>
          ELSE <<>>

\* the inner loop from j on, for one i
RECURSIVE lexicalInner(_, _, _, _)
lexicalInner(nodes, threshold, i, j) ==
  IF j > Len(nodes) THEN <<>>
  ELSE lexicalCandidate(nodes[i], nodes[j], threshold)
       \o lexicalInner(nodes, threshold, i, j + 1)

\* the outer loop from i on
RECURSIVE lexicalCandidates(_, _, _)
lexicalCandidates(nodes, threshold, i) ==
  IF i > Len(nodes) THEN <<>>
  ELSE lexicalInner(nodes, threshold, i, i + 1)
       \o lexicalCandidates(nodes, threshold, i + 1)

\* candidates.sort((a, b) => b.similarity - a.similarity): stable, descending
RECURSIVE insertCandidate(_, _)
insertCandidate(sorted, c) ==
  IF sorted = <<>> THEN <<c>>
  ELSE IF c.similarity > Head(sorted).similarity THEN <<c>> \o sorted
  ELSE <<Head(sorted)>> \o insertCandidate(Tail(sorted), c)

\* the candidates returned in the order they were found
sortCandidatesOmitted(candidates) == candidates

RECURSIVE sortCandidates(_)
sortCandidates(candidates) ==
  IF candidates = <<>> THEN <<>>
  ELSE insertCandidate(sortCandidates(SubSeq(candidates, 1, Len(candidates) - 1)),
                       candidates[Len(candidates)])

detectDuplicates(g, threshold) ==
  sortCandidates(lexicalCandidates(g.nodes, threshold, 1))

\* ------------------------------------------- detectDuplicates called on its own
DupeTypes == {"person", "organization"}
DupeLabels == {EmptyLabel, Liga, LIGA, Ligi}
Thresholds == {0, 700000, SCALE}

DupeNodeLists ==
  UNION {{[i \in 1..n |-> [id |-> ToString(i), label |-> f[i][1], type |-> f[i][2]]] :
            f \in [1..n -> DupeLabels \X DupeTypes]} : n \in 0..MaxDupeNodes}

InitDupes ==
  /\ graph = [nodes |-> <<>>, edges |-> <<>>, meta |-> NoMeta]
  /\ selectedNodeIds = <<>>
  /\ nextEdgeId = 1
  /\ lastMerge = NoMerge
  /\ arg \in {[nodes |-> ns, edges |-> <<>>, meta |-> NoMeta, threshold |-> th] :
                ns \in DupeNodeLists, th \in Thresholds}
  /\ result = NoResult
  /\ GroomIdle
  /\ AsyncIdle

\* detectDuplicates(arg, arg.threshold)
DetectDuplicatesCall ==
  /\ ~result.done
  /\ result' = [done |-> TRUE, graph |-> EmptyGraph,
                candidates |-> detectDuplicates(arg, arg.threshold)]
  /\ UNCHANGED <<groomVars, thinkingVars, persistVars>>
  /\ UNCHANGED <<graph, selectedNodeIds, nextEdgeId, lastMerge, arg>>

NextDupes ==
  \/ DetectDuplicatesCall

SpecDupes == InitDupes /\ [][NextDupes]_vars

\* ======================================================= embeddingService
\* Vectors are sequences of integers.  embedContent, the embedding
\* collaborator, answers a text with a vector that depends on the text alone,
\* with an empty vector, with a response carrying no values, or by throwing.
\* The vectors it gives have norm 0 or 5, so that Math.sqrt is exact.
Partia == <<"p", "a", "r", "t", "i", "a">>

descriptionOf(node) ==
  IF "description" \in DOMAIN node THEN node.description ELSE <<>>

\* `${label}: ${description || ''}`
embeddingText(node) == node.label \o <<":", " ">> \o descriptionOf(node)

embedContent(text) ==
  CASE text = Liga \o <<":", " ">> -> <<3, 4>>
    [] text = LIGA \o <<":", " ">> -> <<3, 4>>
    [] text = Ligi \o <<":", " ">> -> <<4, 3>>
    [] text = Liga \o <<":", " ">> \o Partia -> <<5, 0>>
    [] text = Ligi \o <<":", " ">> \o Partia -> <<5>>
    [] text = EmptyLabel \o <<":", " ">> -> <<0, 0>>
    [] OTHER -> <<0, 5>>

EmbedOutcomes == {"throws", "novalues", "empty", "vector"}

\* embeddingsCache.has(text), always answering no
cachedNever(cache, text) == FALSE

\* embeddingsCache.has(text)
cached(cache, text) == text \in DOMAIN cache

\* what getEmbedding returns for the collaborator's answer
embeddingReturned(text, outcome) ==
  CASE outcome = "vector" -> embedContent(text)
    [] outcome = "empty" -> <<>>
    [] OTHER -> <<>>

\* the cache after the collaborator's answer: any answer carrying values,
\* an empty array included, is stored
cacheAfter(cache, text, outcome) ==
  IF outcome \in {"vector", "empty"}
  THEN (text :> embeddingReturned(text, outcome)) @@ cache
  ELSE cache

RECURSIVE dotProduct(_, _)
dotProduct(vecA, vecB) ==
  IF vecA = <<>> THEN 0
  ELSE Head(vecA) * Head(vecB) + dotProduct(Tail(vecA), Tail(vecB))

Sqrt(n) == CHOOSE r \in 0..n : r * r <= n /\ (r + 1) * (r + 1) > n

cosineSimilarity(vecA, vecB) ==
  IF Len(vecA) # Len(vecB) \/ Len(vecA) = 0 THEN 0
  ELSE LET normA == dotProduct(vecA, vecA)
           normB == dotProduct(vecB, vecB)
       IN IF normA = 0 \/ normB = 0 THEN 0
          ELSE Ratio(dotProduct(vecA, vecB), Sqrt(normA) * Sqrt(normB))

\* ---------------------------------------------------- detectDuplicatesSemantic
nodesToCheck(nodes) == SubSeq(nodes, 1, Min2(Len(nodes), PrefixLimit))

\* the inner loop's body: what the pair n1, n2 adds to candidates
semanticCandidate(n1, n2, nodeEmbeddings, threshold) ==
  IF n1.type # n2.type THEN <<>>
  ELSE IF n1.id = n2.id THEN <<>>
  ELSE LET vec1 == nodeEmbeddings[n1.id]
           vec2 == nodeEmbeddings[n2.id]
       IN IF Len(vec1) # 0 /\ Len(vec2) # 0
          THEN LET sim == cosineSimilarity(vec1, vec2)
               IN IF sim >= threshold
                  THEN <<[nodeA |-> n1, nodeB |-> n2, similarity |-> sim]>>
                  ELSE <<>>
          ELSE <<>>

\* the inner loop from j on, for one i
RECURSIVE semanticInner(_, _, _, _, _)
semanticInner(nodes, nodeEmbeddings, threshold, i, j) ==
  IF j > Len(nodes) THEN <<>>
  ELSE semanticCandidate(nodes[i], nodes[j], nodeEmbeddings, threshold)
       \o semanticInner(nodes, nodeEmbeddings, threshold, i, j + 1)

\* the outer loop from i on
RECURSIVE semanticCandidates(_, _, _, _)
semanticCandidates(nodes, nodeEmbeddings, threshold, i) ==
  IF i > Len(nodes) THEN <<>>
  ELSE semanticInner(nodes, nodeEmbeddings, threshold, i, i + 1)
       \o semanticCandidates(nodes, nodeEmbeddings, threshold, i + 1)

\* A call of detectDuplicatesSemantic(arg, arg.threshold) in progress:
\*   pc             "embed" in the first loop, before getEmbedding for node i
\*                  "await" while embedContent is outstanding for node i
\*                  "done"  once the sorted candidates are returned
\*   nodeEmbeddings the vectors recorded so far, by node id
\*   got            the vector getEmbedding returned for each node, by position
NewRun == [pc |-> "embed", i |-> 1, nodeEmbeddings |-> <<>>, got |-> <<>>,
           candidates |-> <<>>]

\* nodeEmbeddings[node.data.id] = v, the loop moving on to the next node
recordEmbedding(run, node, v) ==
  [run EXCEPT !.pc = "embed", !.i = run.i + 1,
              !.nodeEmbeddings = (node.id :> v) @@ run.nodeEmbeddings,
              !.got = Append(run.got, v)]

noteReturned(text, v) ==
  IF v # <<>> /\ text \notin DOMAIN returned
  THEN (text :> v) @@ returned ELSE returned

\* ------------------------------------- the detectors called on a graph directly
SemanticThresholds == {0, 880000}

SemNode(id, label, type) == [id |-> id, label |-> label, type |-> type]

SemanticNodeLists ==
  { <<SemNode("1", Liga, "person"), SemNode("2", Ligi, "person"),
      SemNode("3", LIGA, "person")>>,
    <<SemNode("1", Liga, "person"), SemNode("1", LIGA, "person"),
      SemNode("2", Ligi, "person")>>,
    <<SemNode("1", Liga, "person"), SemNode("2", Liga, "person"),
      SemNode("3", Liga, "organization")>>,
    <<SemNode("1", EmptyLabel, "person"),
      [id |-> "2", label |-> Ligi, type |-> "person", description |-> Partia],
      [id |-> "3", label |-> Liga, type |-> "person", description |-> Partia]>> }

\* one node more than the prefix: two alike at its ends, a third past it
LongNodeList ==
  [i \in 1..(PrefixLimit + 1) |->
     IF i = 1 \/ i = PrefixLimit + 1 THEN SemNode(ToString(i), Liga, "person")
     ELSE IF i = PrefixLimit THEN SemNode(ToString(i), Ligi, "person")
     ELSE SemNode(ToString(i), EmptyLabel, "organization")]

\* the cache once every text of the list has been embedded
cacheFilled(nodes) ==
  [t \in {embeddingText(nodes[i]) : i \in 1..Len(nodes)} |-> embedContent(t)]

SemanticInputs ==
  {[nodes |-> ns, threshold |-> th, cache |-> <<>>] :
     ns \in SemanticNodeLists, th \in SemanticThresholds}
  \cup {[nodes |-> LongNodeList, threshold |-> 880000,
         cache |-> cacheFilled(LongNodeList)]}

InitSemantic ==
  \E input \in SemanticInputs :
    /\ graph = [nodes |-> <<>>, edges |-> <<>>, meta |-> NoMeta]
    /\ selectedNodeIds = <<>>
    /\ nextEdgeId = 1
    /\ lastMerge = NoMerge
    /\ arg = [nodes |-> input.nodes, edges |-> <<>>, meta |-> NoMeta,
              threshold |-> input.threshold]
    /\ result = NoResult
    /\ dupeCandidates = <<>>
    /\ accepted = NoAccepted
    /\ embeddingsCache = input.cache
    /\ runs = <<>>
    /\ returned = <<>>
    /\ AsyncIdle

semanticFrame ==
  UNCHANGED <<graph, selectedNodeIds, nextEdgeId, lastMerge, arg, result,
              dupeCandidates, accepted, thinkingVars, persistVars>>

\* detectDuplicatesSemantic(arg, arg.threshold) is called
StartRun ==
  /\ Len(runs) < MaxRuns
  /\ runs' = Append(runs, NewRun)
  /\ UNCHANGED <<embeddingsCache, returned>>
  /\ semanticFrame

\* getEmbedding finds the text in the cache
CacheHit(r) ==
  LET run == runs[r]
      nodes == nodesToCheck(arg.nodes)
  IN /\ run.pc = "embed" /\ run.i <= Len(nodes)
     /\ cached(embeddingsCache, embeddingText(nodes[run.i]))
     /\ LET text == embeddingText(nodes[run.i])
        IN /\ runs' = [runs EXCEPT ![r] =
                         recordEmbedding(run, nodes[run.i], embeddingsCache[text])]
           /\ returned' = noteReturned(text, embeddingsCache[text])
     /\ UNCHANGED embeddingsCache
     /\ semanticFrame

\* getEmbedding misses the cache and calls embedContent
Invoke(r) ==
  LET run == runs[r]
      nodes == nodesToCheck(arg.nodes)
  IN /\ run.pc = "embed" /\ run.i <= Len(nodes)
     /\ ~cached(embeddingsCache, embeddingText(nodes[run.i]))
     /\ runs' = [runs EXCEPT ![r] = [run EXCEPT !.pc = "await"]]
     /\ UNCHANGED <<embeddingsCache, returned>>
     /\ semanticFrame

\* embedContent answers and getEmbedding returns
Respond(r, outcome) ==
  LET run == runs[r]
      nodes == nodesToCheck(arg.nodes)
  IN /\ run.pc = "await"
     /\ LET text == embeddingText(nodes[run.i])
            v == embeddingReturned(text, outcome)
        IN /\ embeddingsCache' = cacheAfter(embeddingsCache, text, outcome)
           /\ runs' = [runs EXCEPT ![r] = recordEmbedding(run, nodes[run.i], v)]
           /\ returned' = noteReturned(text, v)
     /\ semanticFrame

\* the pair loops and the final sort
Finish(r) ==
  LET run == runs[r]
      nodes == nodesToCheck(arg.nodes)
  IN /\ run.pc = "embed" /\ run.i > Len(nodes)
     /\ runs' = [runs EXCEPT ![r] =
                   [run EXCEPT !.pc = "done",
                               !.candidates = sortCandidates(
                                  semanticCandidates(nodes, run.nodeEmbeddings,
                                                     arg.threshold, 1))]]
     /\ UNCHANGED <<embeddingsCache, returned>>
     /\ semanticFrame

NextSemantic ==
  \/ StartRun
  \/ \E r \in 1..Len(runs) : CacheHit(r)
  \/ \E r \in 1..Len(runs) : Invoke(r)
  \/ \E r \in 1..Len(runs) : \E outcome \in EmbedOutcomes : Respond(r, outcome)
  \/ \E r \in 1..Len(runs) : Finish(r)
  \/ DetectDuplicatesCall

SpecSemantic == InitSemantic /\ [][NextSemantic]_vars

\* ================================================ enrich called on its own
\* The graphs enrichGraphWithMetrics is called on directly: node lists of
\* distinct ids, edge lists drawn in order from ArgEdgePool, which holds plain
\* edges, edges whose sign and certainty are already set against the heuristic,
\* a self-loop, and edges with an end that is no node ("z").
ArgEdge(id, s, t, label, sign, certainty) ==
  [id |-> id, source |-> s, target |-> t, label |-> label,
   sign |-> sign, certainty |-> certainty]

ArgEdgePool ==
  << ArgEdge(1, "a", "b", Sojusz, Undefined, Undefined),
     ArgEdge(2, "b", "c", Rywal, Undefined, Undefined),
     ArgEdge(3, "c", "a", NoLabel, Undefined, "alleged"),
     ArgEdge(4, "a", "b", Rywal, "positive", "disputed"),
     ArgEdge(5, "b", "c", Sojusz, "negative", Undefined),
     ArgEdge(6, "a", "a", Sojusz, Undefined, Undefined),
     ArgEdge(7, "z", "a", Sojusz, Undefined, Undefined),
     ArgEdge(8, "b", "z", NiePrzeciwny, Undefined, Undefined) >>

RECURSIVE PickEdges(_, _)
PickEdges(chosen, i) ==
  IF i > Len(ArgEdgePool) THEN <<>>
  ELSE (IF i \in chosen THEN <<ArgEdgePool[i]>> ELSE <<>>) \o PickEdges(chosen, i + 1)

ArgEdgeLists ==
  {PickEdges(chosen, 1) :
     chosen \in {c \in SUBSET (1..Len(ArgEdgePool)) : Cardinality(c) <= MaxArgEdges}}

ArgNodeLists ==
  LET idLists == UNION {[1..n -> Ids] : n \in 0..MaxArgNodes}
      distinct == {l \in idLists : \A i \in 1..Len(l) : \A j \in 1..Len(l) :
                                      l[i] = l[j] => i = j}
  IN {[i \in 1..Len(l) |-> [id |-> l[i], label |-> "Dmowski"]] : l \in distinct}

InitEnrich ==
  /\ graph = [nodes |-> <<>>, edges |-> <<>>, meta |-> NoMeta]
  /\ selectedNodeIds = <<>>
  /\ nextEdgeId = 1
  /\ lastMerge = NoMerge
  /\ arg \in {[nodes |-> ns, edges |-> es, meta |-> NoMeta] :
                ns \in ArgNodeLists, es \in ArgEdgeLists}
  /\ result = NoResult
  /\ GroomIdle
  /\ AsyncIdle

\* enrichGraphWithMetrics(arg)
EnrichCall ==
  \E m \in ModularityDraws :
    /\ ~result.done
    /\ result' = [done |-> TRUE, graph |-> enrichGraphWithMetrics(arg, m)]
    /\ UNCHANGED <<groomVars, thinkingVars, persistVars>>
    /\ UNCHANGED <<graph, selectedNodeIds, nextEdgeId, lastMerge, arg>>

\* the graph a pass returned is the graph the next pass is called on
Feed ==
  /\ result.done
  /\ arg' = result.graph
  /\ result' = NoResult
  /\ UNCHANGED <<groomVars, thinkingVars, persistVars>>
  /\ UNCHANGED <<graph, selectedNodeIds, nextEdgeId, lastMerge>>

NextEnrich ==
  \/ EnrichCall
  \/ Feed

SpecEnrich == InitEnrich /\ [][NextEnrich]_vars

\* ============================================== the sidebar's duplicate grooming
LexicalGroomThreshold == 700000    \* detectDuplicates(graph, 0.7)

descriptionLength(node) ==
  IF "description" \in DOMAIN node THEN Len(node.description) ELSE 0

\* keepA computed with > in place of >=
keepAStrict(candidate) ==
  descriptionLength(candidate.nodeA) > descriptionLength(candidate.nodeB)

keepA(candidate) ==
  descriptionLength(candidate.nodeA) >= descriptionLength(candidate.nodeB)

\* prev.filter(c => c !== candidate): the accepted candidate, an object of its
\* own, is the k-th of the list
withoutCandidate(candidates, k) ==
  SubSeq(candidates, 1, k - 1) \o SubSeq(candidates, k + 1, Len(candidates))

\* three people with like labels; each description missing, empty or given
GroomDescriptions == {Undefined, <<>>, <<"p">>, Partia}

GroomNode(id, label, description) ==
  IF description = Undefined
  THEN [id |-> id, label |-> label, type |-> "person"]
  ELSE [id |-> id, label |-> label, type |-> "person", description |-> description]

GroomGraphs ==
  {[nodes |-> <<GroomNode("a", Liga, d[1]), GroomNode("b", LIGA, d[2]),
                GroomNode("c", Ligi, d[3])>>,
    edges |-> <<ArgEdge(1, "a", "b", Sojusz, Undefined, Undefined),
                ArgEdge(2, "b", "c", Rywal, Undefined, Undefined)>>,
    meta |-> NoMeta] : d \in [1..3 -> GroomDescriptions]}

InitGroom ==
  /\ graph \in {enrichGraphWithMetrics(g, m) :
                  g \in GroomGraphs, m \in StoreModularityDraws}
  /\ selectedNodeIds = <<>>
  /\ nextEdgeId = 3
  /\ lastMerge = NoMerge
  /\ arg = EmptyGraph
  /\ result = NoResult
  /\ GroomIdle
  /\ AsyncIdle

\* handleGroomDupes(false): no await on this path, so setThinking(true), the
\* detection and the closing setThinking(false) are one step
HandleGroomDupes ==
  LET candidates == detectDuplicates(graph, LexicalGroomThreshold)
  IN /\ dupeCandidates' = IF Len(candidates) = 0 THEN dupeCandidates ELSE candidates
     /\ accepted' = NoAccepted
     /\ isThinking' = FALSE
     /\ UNCHANGED <<embeddingsCache, runs, returned, inFlight, persistVars>>
     /\ UNCHANGED <<graph, selectedNodeIds, nextEdgeId, lastMerge, arg, result>>

\* handleMerge(dupeCandidates[k])
HandleMerge ==
  \E k \in 1..Len(dupeCandidates) : \E m \in StoreModularityDraws :
    LET candidate == dupeCandidates[k]
        keepId == IF keepA(candidate) THEN candidate.nodeA.id ELSE candidate.nodeB.id
        dropId == IF keepA(candidate) THEN candidate.nodeB.id ELSE candidate.nodeA.id
    IN /\ graph' = mergeNodes(graph, keepId, dropId, m)
       /\ lastMerge' = [valid |-> TRUE, keepId |-> keepId, dropId |-> dropId,
                        both |-> {keepId, dropId} \subseteq NodeIdSet(graph.nodes),
                        repointed |-> LET Test(e) == Repointed(e, keepId, dropId)
                                      IN Len(SelectSeq(graph.edges, Test)),
                        oldLoops |-> LET Test(e) == e.source = e.target
                                     IN Len(SelectSeq(graph.edges, Test)),
                        newLoops |-> LET Test(e) == /\ e.source # e.target
                                                    /\ {e.source, e.target} = {keepId, dropId}
                                     IN Len(SelectSeq(graph.edges, Test))]
       /\ dupeCandidates' = withoutCandidate(dupeCandidates, k)
       /\ accepted' = [valid |-> TRUE, candidate |-> candidate, index |-> k,
                       before |-> dupeCandidates]
       /\ UNCHANGED <<embeddingsCache, runs, returned, thinkingVars, persistVars>>
       /\ UNCHANGED <<selectedNodeIds, nextEdgeId, arg, result>>

NextGroom ==
  \/ HandleGroomDupes
  \/ HandleMerge

SpecGroom == InitGroom /\ [][NextGroom]_vars

\* ------------------------------------------------- the shared busy flag
\* handleSend, handleExpand and handleGroomDupes(true) each call
\* setThinking(true), await one collaborator call and call setThinking(false)
\* in a finally block.  An entry of inFlight is a handler between the two, with
\* the nodes of the graph it handed to its collaborator.
MaxInFlight == 2

SemanticGroomThreshold == 880000

InFlightOp(kind) == [kind |-> kind, nodes |-> graph.nodes]

inFlightOf(kind) ==
  LET Test(op) == op.kind = kind IN Len(SelectSeq(inFlight, Test))

withoutOp(ops, k) == SubSeq(ops, 1, k - 1) \o SubSeq(ops, k + 1, Len(ops))

\* what generateGraphExpansion resolves with: nothing new, or a node the graph
\* holds already with one relationship
ExpansionResults ==
  {[newNodes |-> <<>>, newEdges |-> <<>>],
   [newNodes |-> <<[id |-> "a", label |-> Liga]>>,
    newEdges |-> <<[source |-> "a", target |-> "c", relationship |-> Sojusz]>>]}

\* the first loop of detectDuplicatesSemantic over nodes, every embedContent
\* call of it answering with outcome: the cache, the vectors by node id and the
\* first non-empty vector per text once the loop is through
RECURSIVE embedNodes(_, _, _)
embedNodes(nodes, outcome, start) ==
  IF nodes = <<>> THEN start
  ELSE LET node == Head(nodes)
           text == embeddingText(node)
           hit == cached(start.cache, text)
           v == IF hit THEN start.cache[text] ELSE embeddingReturned(text, outcome)
           next == [cache |-> IF hit THEN start.cache
                              ELSE cacheAfter(start.cache, text, outcome),
                    nodeEmbeddings |-> (node.id :> v) @@ start.nodeEmbeddings,
                    returned |-> IF v # <<>> /\ text \notin DOMAIN start.returned
                                 THEN (text :> v) @@ start.returned
                                 ELSE start.returned]
       IN embedNodes(Tail(nodes), outcome, next)

ThinkingGraphs ==
  {g \in GroomGraphs : \A i \in 1..Len(g.nodes) :
     "description" \in DOMAIN g.nodes[i] => g.nodes[i].description = Partia}

InitThinking ==
  /\ graph \in {enrichGraphWithMetrics(g, m) :
                  g \in ThinkingGraphs, m \in StoreModularityDraws}
  /\ selectedNodeIds = <<>>
  /\ nextEdgeId = 3
  /\ lastMerge = NoMerge
  /\ arg = EmptyGraph
  /\ result = NoResult
  /\ GroomIdle
  /\ AsyncIdle

thinkingFrame == UNCHANGED <<selectedNodeIds, lastMerge, arg, result, runs, persistVars>>

\* handleSend with a non-blank input, up to its await of chatWithAgent
HandleSend ==
  /\ ~isThinking
  /\ Len(inFlight) < MaxInFlight
  /\ isThinking' = TRUE
  /\ inFlight' = Append(inFlight, InFlightOp("chat"))
  /\ UNCHANGED <<graph, nextEdgeId, dupeCandidates, accepted, embeddingsCache, returned>>
  /\ thinkingFrame

\* handleExpand with a topic entered, up to its await of generateGraphExpansion
HandleExpand ==
  /\ Len(inFlight) < MaxInFlight
  /\ isThinking' = TRUE
  /\ inFlight' = Append(inFlight, InFlightOp("expand"))
  /\ UNCHANGED <<graph, nextEdgeId, dupeCandidates, accepted, embeddingsCache, returned>>
  /\ thinkingFrame

\* handleGroomDupes(true), up to its await of detectDuplicatesSemantic
HandleGroomDupesSemantic ==
  /\ Len(inFlight) < MaxInFlight
  /\ isThinking' = TRUE
  /\ inFlight' = Append(inFlight, InFlightOp("groom"))
  /\ UNCHANGED <<graph, nextEdgeId, dupeCandidates, accepted, embeddingsCache, returned>>
  /\ thinkingFrame

\* chatWithAgent settles, either way: handleSend adds a message and its
\* finally block runs
ChatSettled(k) ==
  /\ inFlight[k].kind = "chat"
  /\ isThinking' = FALSE
  /\ inFlight' = withoutOp(inFlight, k)
  /\ UNCHANGED <<graph, nextEdgeId, dupeCandidates, accepted, embeddingsCache, returned>>
  /\ thinkingFrame

\* generateGraphExpansion settles.  Resolved with r: addNodesAndEdges, then the
\* finally block.  Rejected: the catch block, then the finally block.
ExpansionSettled(k) ==
  \E settled \in {"resolved", "rejected"} :
  \E r \in ExpansionResults : \E m \in StoreModularityDraws :
    /\ inFlight[k].kind = "expand"
    /\ IF settled = "rejected"
       THEN UNCHANGED <<graph, nextEdgeId>>
       ELSE /\ nextEdgeId + Len(r.newEdges) <= MaxEdges + 1
            /\ graph' = addNodesAndEdges(graph, r.newNodes, r.newEdges, nextEdgeId, m)
            /\ nextEdgeId' = nextEdgeId + Len(r.newEdges)
    /\ isThinking' = FALSE
    /\ inFlight' = withoutOp(inFlight, k)
    /\ UNCHANGED <<dupeCandidates, accepted, embeddingsCache, returned>>
    /\ thinkingFrame

\* detectDuplicatesSemantic resolves: the candidates are shown unless there is
\* none, then the finally block
SemanticGroomResolved(k) ==
  \E outcome \in {"vector", "throws"} :
    LET nodes == nodesToCheck(inFlight[k].nodes)
        embedded == embedNodes(nodes, outcome,
                               [cache |-> embeddingsCache, nodeEmbeddings |-> <<>>,
                                returned |-> returned])
        candidates == sortCandidates(
                        semanticCandidates(nodes, embedded.nodeEmbeddings,
                                           SemanticGroomThreshold, 1))
    IN /\ inFlight[k].kind = "groom"
       /\ embeddingsCache' = embedded.cache
       /\ returned' = embedded.returned
       /\ dupeCandidates' = IF Len(candidates) = 0 THEN dupeCandidates ELSE candidates
       /\ accepted' = NoAccepted
       /\ isThinking' = FALSE
       /\ inFlight' = withoutOp(inFlight, k)
       /\ UNCHANGED <<graph, nextEdgeId>>
       /\ thinkingFrame

NextThinking ==
  \/ HandleSend
  \/ HandleExpand
  \/ HandleGroomDupesSemantic
  \/ HandleGroomDupes
  \/ \E k \in 1..Len(inFlight) : ChatSettled(k)
  \/ \E k \in 1..Len(inFlight) : ExpansionSettled(k)
  \/ \E k \in 1..Len(inFlight) : SemanticGroomResolved(k)

SpecThinking == InitThinking /\ [][NextThinking]_vars

\* ------------------------------------------------------------- persistence
\* storage.save and storage.load each open the database and then issue one
\* request on the record 'current'; requests on one record are carried out
\* in the order issued.  No caller awaits save.
MaxStorageOps == 2

PutOp(g) == [kind |-> "put", graph |-> g]
GetOp == [kind |-> "get", graph |-> EmptyGraph]

\* INITIAL_GRAPH, cut down to two nodes and the relationship between them
SeedGraph ==
  [nodes |-> <<[id |-> "a", label |-> "Dmowski"], [id |-> "b", label |-> "Dmowski"]>>,
   edges |-> <<ArgEdge(1, "a", "b", Sojusz, Undefined, Undefined)>>,
   meta |-> NoMeta]

mergeFacts(g, keepId, dropId) ==
  [valid |-> TRUE, keepId |-> keepId, dropId |-> dropId,
   both |-> {keepId, dropId} \subseteq NodeIdSet(g.nodes),
   repointed |-> LET Test(e) == Repointed(e, keepId, dropId)
                 IN Len(SelectSeq(g.edges, Test)),
   oldLoops |-> LET Test(e) == e.source = e.target
                IN Len(SelectSeq(g.edges, Test)),
   newLoops |-> LET Test(e) == /\ e.source # e.target
                               /\ {e.source, e.target} = {keepId, dropId}
                IN Len(SelectSeq(g.edges, Test))]

InitPersist ==
  /\ graph = [nodes |-> <<>>, edges |-> <<>>, meta |-> NoMeta]
  /\ selectedNodeIds = <<>>
  /\ nextEdgeId = 2
  /\ lastMerge = NoMerge
  /\ arg = EmptyGraph
  /\ result = NoResult
  /\ GroomIdle
  /\ AsyncIdle

persistFrame == UNCHANGED <<nextEdgeId, arg, result, groomVars, thinkingVars>>

\* set({graph: enriched, ...}); storage.save(enriched) closing a store operation
stored(enriched) ==
  /\ Len(storageOps) < MaxStorageOps
  /\ graph' = enriched
  /\ storageOps' = Append(storageOps, PutOp(enriched))
  /\ lastMutation' = [valid |-> TRUE, graph |-> enriched]
  /\ UNCHANGED <<snapshot, autoSave>>

\* initGraph up to its return: loadFromStorage has called storage.load, the
\* interval is set
InitGraph ==
  /\ Len(storageOps) < MaxStorageOps
  /\ storageOps' = Append(storageOps, GetOp)
  /\ autoSave' = TRUE
  /\ UNCHANGED <<graph, selectedNodeIds, lastMerge, snapshot, lastMutation>>
  /\ persistFrame

\* the put of the oldest pending save is carried out
StoragePut ==
  /\ storageOps # <<>>
  /\ Head(storageOps).kind = "put"
  /\ snapshot' = [present |-> TRUE, graph |-> Head(storageOps).graph]
  /\ storageOps' = Tail(storageOps)
  /\ UNCHANGED <<graph, selectedNodeIds, lastMerge, lastMutation, autoSave>>
  /\ persistFrame

\* the get of the oldest pending load is carried out: storage.load returns,
\* loadFromStorage sets the graph when there is a record, and initGraph's
\* continuation installs the seed when the graph then has no nodes
StorageLoad ==
  \E m \in StoreModularityDraws :
    LET loaded == IF snapshot.present THEN snapshot.graph ELSE graph
        enriched == enrichGraphWithMetrics(SeedGraph, m)
    IN /\ storageOps # <<>>
       /\ Head(storageOps).kind = "get"
       /\ IF Len(loaded.nodes) = 0
          THEN /\ graph' = enriched
               /\ storageOps' = Append(Tail(storageOps), PutOp(enriched))
          ELSE /\ graph' = loaded
               /\ storageOps' = Tail(storageOps)
       /\ UNCHANGED <<selectedNodeIds, lastMerge, snapshot, lastMutation, autoSave>>
       /\ persistFrame

\* the interval's callback
AutoSave ==
  /\ autoSave
  /\ Len(graph.nodes) > 0
  /\ Len(storageOps) < MaxStorageOps
  /\ storageOps' = Append(storageOps, PutOp(graph))
  /\ UNCHANGED <<graph, selectedNodeIds, lastMerge, snapshot, lastMutation, autoSave>>
  /\ persistFrame

\* the five store operations that replace the graph, each with its save
AddNodesAndEdgesStored ==
  \E m \in StoreModularityDraws :
    /\ stored(addNodesAndEdges(graph, <<[id |-> "c", label |-> "Dmowski"]>>, <<>>,
                               nextEdgeId, m))
    /\ lastMerge' = NoMerge
    /\ UNCHANGED selectedNodeIds
    /\ persistFrame

UpdateNodeStored ==
  \E m \in StoreModularityDraws :
    /\ stored(updateNode(graph, "a", [label |-> "Roman Dmowski"], m))
    /\ lastMerge' = NoMerge
    /\ UNCHANGED selectedNodeIds
    /\ persistFrame

RemoveNodeStored ==
  \E nodeId \in {"a", "b"} : \E m \in StoreModularityDraws :
    /\ stored(removeNode(graph, nodeId, m))
    /\ selectedNodeIds' = <<>>
    /\ lastMerge' = NoMerge
    /\ persistFrame

BulkDeleteSelectionStored ==
  \E m \in StoreModularityDraws :
    /\ Len(selectedNodeIds) # 0
    /\ stored(bulkDeleteSelection(graph, selectedNodeIds, m))
    /\ selectedNodeIds' = <<>>
    /\ lastMerge' = NoMerge
    /\ persistFrame

MergeNodesStored ==
  \E m \in StoreModularityDraws :
    /\ stored(mergeNodes(graph, "a", "b", m))
    /\ lastMerge' = mergeFacts(graph, "a", "b")
    /\ UNCHANGED selectedNodeIds
    /\ persistFrame

NextPersist ==
  \/ InitGraph
  \/ StoragePut
  \/ StorageLoad
  \/ AutoSave
  \/ AddNodesAndEdgesStored
  \/ UpdateNodeStored
  \/ RemoveNodeStored
  \/ BulkDeleteSelectionStored
  \/ MergeNodesStored
  \/ ToggleNodeSelection

SpecPersist == InitPersist /\ [][NextPersist]_vars

\* ==================================================== calculateRegionalMetrics
\* A node's region is a string or missing; its importance is in millionths.
regionOf(node) == IF "region" \in DOMAIN node THEN node.region ELSE Undefined

\* nodes.find(n => n.data.id === id): the index of the first such node, 0 if none
findNode(nodes, id) ==
  IF \E i \in 1..Len(nodes) : nodes[i].id = id
  THEN CHOOSE i \in 1..Len(nodes) :
         /\ nodes[i].id = id
         /\ \A j \in 1..(i - 1) : nodes[j].id # id
  ELSE 0

\* node?.data.region is truthy (found, and the region is there)
hasRegion(nodes, i) == i # 0 /\ regionOf(nodes[i]) # Undefined

\* the test of line 358 with the comparisons against 'Unknown' left out
edgeValidAnyRegion(nodes, e) ==
  /\ hasRegion(nodes, findNode(nodes, e.source))
  /\ hasRegion(nodes, findNode(nodes, e.target))

\* the test of line 358
edgeValid(nodes, e) ==
  LET src == findNode(nodes, e.source)
      tgt == findNode(nodes, e.target)
  IN /\ hasRegion(nodes, src) /\ hasRegion(nodes, tgt)
     /\ regionOf(nodes[src]) # "Unknown" /\ regionOf(nodes[tgt]) # "Unknown"

sameRegion(nodes, e) ==
  regionOf(nodes[findNode(nodes, e.source)]) = regionOf(nodes[findNode(nodes, e.target)])

isolationIndex(g) ==
  LET Valid(e) == edgeValid(g.nodes, e)
      Same(e) == edgeValid(g.nodes, e) /\ sameRegion(g.nodes, e)
      totalValidEdges == Len(SelectSeq(g.edges, Valid))
      sameRegionEdges == Len(SelectSeq(g.edges, Same))
  IN IF totalValidEdges > 0 THEN Ratio(sameRegionEdges, totalValidEdges) ELSE 0

\* n.data.importance || 1
importanceOrOne(n) == IF n.importance = 0 THEN SCALE ELSE n.importance

\* differentRegionCount for node n
differentRegionCount(g, n) ==
  LET Incident(e) == e.source = n.id \/ e.target = n.id
      incident == SelectSeq(g.edges, Incident)
      neighbors == [k \in 1..Len(incident) |->
                      IF incident[k].source = n.id THEN incident[k].target
                      ELSE incident[k].source]
      Different(nid) ==
        LET neighbor == findNode(g.nodes, nid)
        IN /\ hasRegion(g.nodes, neighbor)
           /\ regionOf(g.nodes[neighbor]) # "Unknown"
           /\ regionOf(g.nodes[neighbor]) # regionOf(n)
  IN Len(SelectSeq(neighbors, Different))

\* bridgeScores after the first i nodes: scores by id, ids in insertion order
RECURSIVE bridgeScores(_, _)
bridgeScores(g, i) ==
  IF i = 0 THEN [ids |-> <<>>, score |-> <<>>]
  ELSE LET prev == bridgeScores(g, i - 1)
           n == g.nodes[i]
       IN IF regionOf(n) = "Unknown" THEN prev
          ELSE [ids |-> IF n.id \in DOMAIN prev.score THEN prev.ids
                        ELSE Append(prev.ids, n.id),
                score |-> (n.id :> differentRegionCount(g, n) * importanceOrOne(n))
                          @@ prev.score]

\* .sort(([, a], [, b]) => b - a): stable, descending
RECURSIVE insertBridge(_, _)
insertBridge(sorted, b) ==
  IF sorted = <<>> THEN <<b>>
  ELSE IF b.score > Head(sorted).score THEN <<b>> \o sorted
  ELSE <<Head(sorted)>> \o insertBridge(Tail(sorted), b)

RECURSIVE sortBridges(_)
sortBridges(entries) ==
  IF entries = <<>> THEN <<>>
  ELSE insertBridge(sortBridges(SubSeq(entries, 1, Len(entries) - 1)),
                    entries[Len(entries)])

calculateRegionalMetrics(g) ==
  LET scores == bridgeScores(g, Len(g.nodes))
      entries == [k \in 1..Len(scores.ids) |->
                    [id |-> scores.ids[k], score |-> scores.score[scores.ids[k]]]]
      sorted == sortBridges(entries)
  IN [isolationIndex |-> isolationIndex(g),
      bridgeScores |-> scores.score,
      bridges |-> SubSeq(sorted, 1, Min2(Len(sorted), BridgeLimit)),
      dominantRegion |-> "Wielkopolska"]

\* ---------------------------------- calculateRegionalMetrics called on its own
Regions == {"Wielkopolska", "Galicja", "Unknown", Undefined}
Importances == {0, 500000}

RegionNode(id, region, importance) ==
  IF region = Undefined THEN [id |-> id, importance |-> importance]
  ELSE [id |-> id, region |-> region, importance |-> importance]

RegionNodeLists ==
  UNION {{[i \in 1..n |-> RegionNode(ToString(i), f[i][1], f[i][2])] :
            f \in [1..n -> Regions \X Importances]} : n \in 0..MaxRegionNodes}

RegionEdge(s, t) == [source |-> s, target |-> t]

\* between the first nodes, there and back, a self-loop, and an edge to no node
RegionEdgePool ==
  << RegionEdge("1", "2"), RegionEdge("2", "1"), RegionEdge("2", "3"),
     RegionEdge("1", "1"), RegionEdge("3", "0") >>

RECURSIVE PickRegionEdges(_, _)
PickRegionEdges(chosen, k) ==
  IF k > Len(RegionEdgePool) THEN <<>>
  ELSE (IF k \in chosen THEN <<RegionEdgePool[k]>> ELSE <<>>)
       \o PickRegionEdges(chosen, k + 1)

RegionEdgeLists ==
  {PickRegionEdges(chosen, 1) :
     chosen \in {c \in SUBSET (1..Len(RegionEdgePool)) : Cardinality(c) <= MaxRegionEdges}}

InitRegional ==
  /\ graph = [nodes |-> <<>>, edges |-> <<>>, meta |-> NoMeta]
  /\ selectedNodeIds = <<>>
  /\ nextEdgeId = 1
  /\ lastMerge = NoMerge
  /\ arg \in {[nodes |-> ns, edges |-> es, meta |-> NoMeta] :
                ns \in RegionNodeLists, es \in RegionEdgeLists}
  /\ result = NoResult
  /\ GroomIdle
  /\ AsyncIdle

\* calculateRegionalMetrics(arg)
RegionalCall ==
  /\ ~result.done
  /\ result' = [done |-> TRUE, graph |-> EmptyGraph,
                regional |-> calculateRegionalMetrics(arg)]
  /\ UNCHANGED <<groomVars, thinkingVars, persistVars>>
  /\ UNCHANGED <<graph, selectedNodeIds, nextEdgeId, lastMerge, arg>>

NextRegional ==
  \/ RegionalCall

SpecRegional == InitRegional /\ [][NextRegional]_vars

\* ------------------------------------------- cosineSimilarity called on its own
\* Integer vectors whose norm is a whole number, so that Math.sqrt is exact
Components == {-5, -4, -3, 0, 3, 4, 5}

CosineVectors ==
  {v \in UNION {[1..n -> Components] : n \in 0..MaxVectorLen} :
     Sqrt(dotProduct(v, v)) * Sqrt(dotProduct(v, v)) = dotProduct(v, v)}

InitCosine ==
  /\ graph = [nodes |-> <<>>, edges |-> <<>>, meta |-> NoMeta]
  /\ selectedNodeIds = <<>>
  /\ nextEdgeId = 1
  /\ lastMerge = NoMerge
  /\ arg \in [vecA : CosineVectors, vecB : CosineVectors]
  /\ result = NoResult
  /\ GroomIdle
  /\ AsyncIdle

\* cosineSimilarity(arg.vecA, arg.vecB)
CosineCall ==
  /\ ~result.done
  /\ result' = [done |-> TRUE, graph |-> EmptyGraph,
                similarity |-> cosineSimilarity(arg.vecA, arg.vecB)]
  /\ UNCHANGED <<groomVars, thinkingVars, persistVars>>
  /\ UNCHANGED <<graph, selectedNodeIds, nextEdgeId, lastMerge, arg>>

NextCosine ==
  \/ CosineCall

SpecCosine == InitCosine /\ [][NextCosine]_vars

\* ================================================================ properties
Dangling(g, e) ==
  e.source \notin NodeIdSet(g.nodes) \/ e.target \notin NodeIdSet(g.nodes)

\* C1: every edge of the stored graph has a source and a target that are ids
\* of nodes of the stored graph.
C1_StoredEdgesReferenceNodes ==
  \A i \in 1..Len(graph.edges) : ~Dangling(graph, graph.edges[i])

\* C2: no two nodes of the stored graph have the same id.
C2_StoredNodeIdsUnique ==
  \A i \in 1..Len(graph.nodes) : \A j \in 1..Len(graph.nodes) :
    graph.nodes[i].id = graph.nodes[j].id => i = j

\* C3: a mergeNodes(keepId, dropId) step from a graph holding both nodes, keepId
\* # dropId, ends with dropId absent, keepId present, no edge referring to
\* dropId, and every edge that had dropId as an end and did not become a
\* self-loop still stored, that end replaced by keepId, the rest of it (id,
\* label, sign, certainty) unchanged.
C3_MergePostcondition ==
  [][(lastMerge'.valid /\ lastMerge'.both /\ lastMerge'.keepId # lastMerge'.dropId) =>
       LET keepId == lastMerge'.keepId
           dropId == lastMerge'.dropId
       IN /\ dropId \notin NodeIdSet(graph'.nodes)
          /\ keepId \in NodeIdSet(graph'.nodes)
          /\ \A j \in 1..Len(graph'.edges) :
               graph'.edges[j].source # dropId /\ graph'.edges[j].target # dropId
          /\ \A i \in 1..Len(graph.edges) :
               Repointed(graph.edges[i], keepId, dropId) =>
                 \E j \in 1..Len(graph'.edges) :
                   graph'.edges[j] =
                     [graph.edges[i] EXCEPT
                        !.source = IF @ = dropId THEN keepId ELSE @,
                        !.target = IF @ = dropId THEN keepId ELSE @]
    ]_vars

C3_Witness ==
  /\ lastMerge.valid /\ lastMerge.both /\ lastMerge.keepId # lastMerge.dropId
  /\ lastMerge.repointed > 0
  /\ lastMerge.newLoops > 0
  /\ \E j \in 1..Len(graph.edges) :
       lastMerge.keepId \in {graph.edges[j].source, graph.edges[j].target}

\* C4: the graph a mergeNodes call stores has no edge with source = target.
C4_NoSelfLoopAfterMerge ==
  lastMerge.valid =>
    \A i \in 1..Len(graph.edges) : graph.edges[i].source # graph.edges[i].target

C4_Witness ==
  lastMerge.valid /\ lastMerge.oldLoops > 0 /\ lastMerge.newLoops > 0

\* C5: once a mutation has stored a graph, every node's degreeCentrality,
\* pagerank, community, clustering and kCore and the graph's globalBalance are
\* the ones enrichGraphWithMetrics computes from the stored nodes and edges.
C5_DerivedFieldsCurrent ==
  LET fresh == enrichGraphWithMetrics(graph, graph.meta.modularity)
  IN graph # [nodes |-> <<>>, edges |-> <<>>, meta |-> NoMeta] =>
       /\ graph.nodes = fresh.nodes
       /\ graph.meta.defined
       /\ graph.meta.globalBalance = fresh.meta.globalBalance

C5_Witness ==
  /\ Len(graph.nodes) = 3
  /\ Len(graph.edges) = 3
  /\ graph.meta.defined
  /\ graph.meta.globalBalance # SCALE
  /\ \E i \in 1..3 : graph.nodes[i].clustering = SCALE

\* C6: an edge that has a sign (a certainty) when enrichGraphWithMetrics is
\* called comes out with the same sign (certainty), pass after pass; an edge
\* without one comes out with the label heuristic's sign (with 'confirmed').
C6_SignAndCertaintySticky ==
  result.done =>
    /\ Len(result.graph.edges) = Len(arg.edges)
    /\ \A i \in 1..Len(arg.edges) :
         LET before == arg.edges[i]
             after == result.graph.edges[i]
         IN /\ before.sign # Undefined => after.sign = before.sign
            /\ before.certainty # Undefined => after.certainty = before.certainty
            /\ before.sign = Undefined =>
                 after.sign = IF isNegative(before.label) THEN "negative" ELSE "positive"
            /\ before.certainty = Undefined => after.certainty = "confirmed"
            /\ after = [before EXCEPT !.sign = after.sign, !.certainty = after.certainty]

C6_Witness ==
  /\ result.done
  /\ arg.meta.defined
  /\ \E i \in 1..Len(arg.edges) :
       /\ arg.edges[i].sign = "positive" /\ isNegative(arg.edges[i].label)
       /\ arg.edges[i].certainty = "disputed"
       /\ result.graph.edges[i] = arg.edges[i]
  /\ \E i \in 1..Len(arg.edges) :
       arg.edges[i].sign = "negative" /\ ~isNegative(arg.edges[i].label)

WellFormedPart(g) ==
  LET NotDangling(e) == ~Dangling(g, e)
  IN [g EXCEPT !.edges = SelectSeq(g.edges, NotDangling)]

\* C7: for every graph, edges with an end that is no node included, every node
\* comes out of enrichGraphWithMetrics with a number (not NaN) for each metric,
\* the same metrics the graph without those edges gives.
C7_EnrichTotal ==
  result.done =>
    /\ \A i \in 1..Len(result.graph.nodes) :
         /\ result.graph.nodes[i].pagerank # NaN
         /\ result.graph.nodes[i].degreeCentrality # NaN
         /\ result.graph.nodes[i].clustering # NaN
    /\ result.graph.nodes =
         enrichGraphWithMetrics(WellFormedPart(arg), result.graph.meta.modularity).nodes

\* C8: for the graph with no nodes and no edges enrichGraphWithMetrics returns
\* no nodes, no edges and globalBalance 1.0.
C8_EmptyGraph ==
  (result.done /\ arg.nodes = <<>> /\ arg.edges = <<>>) =>
    /\ result.graph.nodes = <<>>
    /\ result.graph.edges = <<>>
    /\ result.graph.meta.defined
    /\ result.graph.meta.globalBalance = SCALE

C8_Witness ==
  result.done /\ arg.nodes = <<>> /\ arg.edges = <<>>

\* C10: for a graph of exactly one node and no edges enrichGraphWithMetrics
\* gives the node clustering 0, degreeCentrality 0 and pagerank 1.0.
C10_SingleIsolatedNode ==
  (result.done /\ Len(arg.nodes) = 1 /\ arg.edges = <<>>) =>
    /\ result.graph.nodes[1].clustering = 0
    /\ result.graph.nodes[1].degreeCentrality = 0
    /\ result.graph.nodes[1].pagerank = SCALE

\* the node ids joined to a member of seen by a path in the undirected
\* adjacency over the nodes of g (edges with an end that is no node left out)
RECURSIVE ReachableFrom(_, _)
ReachableFrom(g, seen) ==
  LET step == {id \in NodeIdSet(g.nodes) :
                 \E i \in 1..Len(g.edges) :
                   /\ ~Dangling(g, g.edges[i])
                   /\ \/ g.edges[i].source \in seen /\ g.edges[i].target = id
                      \/ g.edges[i].target \in seen /\ g.edges[i].source = id}
  IN IF step \subseteq seen THEN seen ELSE ReachableFrom(g, seen \cup step)

\* C11: detectCommunities gives every node one community id, and two nodes the
\* same id exactly when a path over existing nodes joins them (so the number of
\* ids is the number of connected components).
C11_CommunitiesAreComponents ==
  result.done =>
    \A i \in 1..Len(arg.nodes) : \A j \in 1..Len(arg.nodes) :
      /\ result.graph.nodes[i].community \in Nat
      /\ (result.graph.nodes[i].community = result.graph.nodes[j].community)
           <=> (arg.nodes[j].id \in ReachableFrom(arg, {arg.nodes[i].id}))

\* ===================================== calculateTriadicBalance called on its own
\* Graphs whose edges carry their signs: up to three nodes with edges drawn in
\* order from SignedEdgePool (both signs and both directions for a pair), and
\* graphs of TriangleLimit + 1 nodes with one triangle, among the first three
\* nodes or among the last three.
SignedEdge(id, s, t, sign) == ArgEdge(id, s, t, NoLabel, sign, "confirmed")

SignedEdgePool ==
  << SignedEdge(1, "a", "b", "positive"), SignedEdge(2, "b", "c", "positive"),
     SignedEdge(3, "c", "a", "positive"), SignedEdge(4, "a", "b", "negative"),
     SignedEdge(5, "c", "b", "negative"), SignedEdge(6, "a", "c", "negative"),
     SignedEdge(7, "b", "a", "positive"), SignedEdge(8, "a", "a", "negative") >>

RECURSIVE PickSigned(_, _)
PickSigned(chosen, i) ==
  IF i > Len(SignedEdgePool) THEN <<>>
  ELSE (IF i \in chosen THEN <<SignedEdgePool[i]>> ELSE <<>>) \o PickSigned(chosen, i + 1)

SignedEdgeLists ==
  {PickSigned(chosen, 1) :
     chosen \in {c \in SUBSET (1..Len(SignedEdgePool)) : Cardinality(c) <= MaxArgEdges}}

LargeNodes == [i \in 1..(TriangleLimit + 1) |-> [id |-> ToString(i), label |-> "Dmowski"]]

LargeTriangle(first, sign) ==
  << SignedEdge(1, ToString(first), ToString(first + 1), "positive"),
     SignedEdge(2, ToString(first + 1), ToString(first + 2), "positive"),
     SignedEdge(3, ToString(first + 2), ToString(first), sign) >>

LargeGraphs ==
  {[nodes |-> LargeNodes, edges |-> LargeTriangle(first, sign), meta |-> NoMeta] :
     first \in {1, TriangleLimit - 1}, sign \in {"positive", "negative"}}

InitBalance ==
  /\ graph = [nodes |-> <<>>, edges |-> <<>>, meta |-> NoMeta]
  /\ selectedNodeIds = <<>>
  /\ nextEdgeId = 1
  /\ lastMerge = NoMerge
  /\ arg \in {[nodes |-> ns, edges |-> es, meta |-> NoMeta] :
                ns \in ArgNodeLists, es \in SignedEdgeLists} \cup LargeGraphs
  /\ result = NoResult
  /\ GroomIdle
  /\ AsyncIdle

\* calculateTriadicBalance(arg); the value is kept in the result's meta
BalanceCall ==
  /\ ~result.done
  /\ result' = [done |-> TRUE,
                graph |-> [arg EXCEPT !.meta = [defined |-> TRUE, modularity |-> 0,
                                                globalBalance |-> calculateTriadicBalance(arg)]]]
  /\ UNCHANGED <<groomVars, thinkingVars, persistVars>>
  /\ UNCHANGED <<graph, selectedNodeIds, nextEdgeId, lastMerge, arg>>

NextBalance ==
  \/ BalanceCall

SpecBalance == InitBalance /\ [][NextBalance]_vars

\* the unordered triples of distinct nodes of g whose three pairs are each
\* joined by an edge; every such node is an end of an edge
JoinedTriples(g) ==
  LET ends == {id \in NodeIdSet(g.nodes) :
                 \E i \in 1..Len(g.edges) : id \in {g.edges[i].source, g.edges[i].target}}
  IN {t \in SUBSET ends :
        /\ Cardinality(t) = 3
        /\ \A u \in t : \A v \in t : u # v => adjSign(g.edges, u, v) # 0}

TripleBalanced(g, t) ==
  \E u \in t : \E v \in t : \E w \in t :
    /\ u # v /\ v # w /\ w # u
    /\ adjSign(g.edges, u, v) * adjSign(g.edges, v, w) * adjSign(g.edges, w, u) > 0

\* C12: calculateTriadicBalance returns the share of balanced triples among all
\* triples of distinct nodes whose three pairs are joined by an edge, and 1.0
\* when there is no such triple.
C12_TriadicBalanceOverAllTriples ==
  result.done =>
    LET all == JoinedTriples(arg)
        balanced == {t \in all : TripleBalanced(arg, t)}
    IN result.graph.meta.globalBalance =
         IF all = {} THEN SCALE ELSE Ratio(Cardinality(balanced), Cardinality(all))

\* u and v are joined by an edge of g, in either direction
Joined(g, u, v) ==
  \E i \in 1..Len(g.edges) :
    \/ g.edges[i].source = u /\ g.edges[i].target = v
    \/ g.edges[i].source = v /\ g.edges[i].target = u

\* the nodes other than v joined to v
UndirectedNeighbours(g, v) == {u \in NodeIdSet(g.nodes) \ {v} : Joined(g, u, v)}

\* C13: the clustering coefficient of node v is 0 when v has fewer than 2
\* neighbours (nodes other than v joined to v) and otherwise 2 * (pairs of
\* neighbours that are joined) / (k * (k - 1)); direction, parallel edges and
\* self-loops do not matter.
C13_ClusteringCoefficient ==
  result.done =>
    \A n \in 1..Len(arg.nodes) :
      LET neighbours == UndirectedNeighbours(arg, arg.nodes[n].id)
          k == Cardinality(neighbours)
          pairs == {p \in SUBSET neighbours :
                      Cardinality(p) = 2 /\ \A u \in p : \A w \in p : u # w => Joined(arg, u, w)}
      IN result.graph.nodes[n].clustering =
           IF k < 2 THEN 0 ELSE Ratio(2 * Cardinality(pairs), k * (k - 1))

\* some keyword of the negative keyword set occurs in the label, letters
\* compared without regard to case
HasNegativeKeyword(label) ==
  \E kw \in negativeKeywords :
    \E start \in 0..(Len(label) - Len(kw)) :
      \A k \in 1..Len(kw) : toLowerCaseChar(label[start + k]) = kw[k]

\* C14: an edge that has no sign when enrichGraphWithMetrics is called comes
\* out 'negative' if its lower-cased label contains a negative keyword and
\* 'positive' otherwise (no label: 'positive').
C14_HeuristicSign ==
  result.done =>
    \A i \in 1..Len(arg.edges) :
      arg.edges[i].sign = Undefined =>
        result.graph.edges[i].sign =
          IF HasNegativeKeyword(arg.edges[i].label) THEN "negative" ELSE "positive"

C14_Witness ==
  /\ result.done
  /\ \E i \in 1..Len(arg.edges) :
       /\ arg.edges[i].sign = Undefined /\ arg.edges[i].label = NiePrzeciwny
       /\ result.graph.edges[i].sign = "negative"
  /\ \E i \in 1..Len(arg.edges) :
       /\ arg.edges[i].sign = Undefined /\ arg.edges[i].label = NoLabel
       /\ result.graph.edges[i].sign = "positive"
  /\ \E i \in 1..Len(arg.edges) :
       /\ arg.edges[i].sign = Undefined /\ arg.edges[i].label = Sojusz
       /\ result.graph.edges[i].sign = "positive"

\* C15: detectDuplicates emits no candidate whose two nodes differ in type, and
\* emits each unordered pair of nodes at most once.
C15_SameTypeAndOncePerPair ==
  result.done =>
    /\ \A k \in 1..Len(result.candidates) :
         result.candidates[k].nodeA.type = result.candidates[k].nodeB.type
    /\ \A k \in 1..Len(result.candidates) : \A l \in 1..Len(result.candidates) :
         {result.candidates[k].nodeA.id, result.candidates[k].nodeB.id}
           = {result.candidates[l].nodeA.id, result.candidates[l].nodeB.id} => k = l

C15_Witness ==
  /\ result.done
  /\ Len(result.candidates) = 1
  /\ \E i \in 1..Len(arg.nodes) : \E j \in 1..Len(arg.nodes) :
       /\ arg.nodes[i].type # arg.nodes[j].type
       /\ arg.nodes[i].label = arg.nodes[j].label
       /\ arg.nodes[i].label # EmptyLabel

\* C16: for every pair of distinct nodes of one type with identical labels,
\* whatever the label, detectDuplicates(graph, 0.7) holds a candidate for the
\* pair with similarity exactly 1.0.
C16_IdenticalLabelsFound ==
  (result.done /\ arg.threshold = 700000) =>
    \A i \in 1..Len(arg.nodes) : \A j \in 1..Len(arg.nodes) :
      (i < j /\ arg.nodes[i].type = arg.nodes[j].type
             /\ arg.nodes[i].label = arg.nodes[j].label) =>
        \E k \in 1..Len(result.candidates) :
          /\ result.candidates[k].nodeA = arg.nodes[i]
          /\ result.candidates[k].nodeB = arg.nodes[j]
          /\ result.candidates[k].similarity = SCALE

\* C16, amended: the same for every pair whose identical labels are not empty.
C16_IdenticalNonEmptyLabelsFound ==
  (result.done /\ arg.threshold = 700000) =>
    \A i \in 1..Len(arg.nodes) : \A j \in 1..Len(arg.nodes) :
      (i < j /\ arg.nodes[i].type = arg.nodes[j].type
             /\ arg.nodes[i].label = arg.nodes[j].label
             /\ arg.nodes[i].label # EmptyLabel) =>
        \E k \in 1..Len(result.candidates) :
          /\ result.candidates[k].nodeA = arg.nodes[i]
          /\ result.candidates[k].nodeB = arg.nodes[j]
          /\ result.candidates[k].similarity = SCALE

C16_Witness ==
  /\ result.done /\ arg.threshold = 700000
  /\ Len(arg.nodes) = 3
  /\ arg.nodes[1].type = arg.nodes[3].type
  /\ arg.nodes[1].label = Liga /\ arg.nodes[3].label = Liga
  /\ \E k \in 1..Len(result.candidates) :
       /\ result.candidates[k].nodeA = arg.nodes[1]
       /\ result.candidates[k].nodeB = arg.nodes[3]
       /\ result.candidates[k].similarity = SCALE

\* C17: whatever embedding calls fail, a finished detectDuplicatesSemantic has
\* no candidate holding a node whose getEmbedding returned an empty vector, and
\* has a candidate for every same-type pair of the checked prefix whose two
\* vectors are non-empty with cosine similarity >= threshold.
C17_FailedNodesExcluded ==
  \A r \in 1..Len(runs) :
    runs[r].pc = "done" =>
      LET nodes == nodesToCheck(arg.nodes)
          run == runs[r]
      IN /\ \A i \in 1..Len(nodes) :
              run.got[i] = <<>> =>
                \A k \in 1..Len(run.candidates) :
                  /\ run.candidates[k].nodeA # nodes[i]
                  /\ run.candidates[k].nodeB # nodes[i]
         /\ \A i \in 1..Len(nodes) : \A j \in 1..Len(nodes) :
              (/\ i < j
               /\ nodes[i].type = nodes[j].type
               /\ run.got[i] # <<>> /\ run.got[j] # <<>>
               /\ cosineSimilarity(run.got[i], run.got[j]) >= arg.threshold) =>
                \E k \in 1..Len(run.candidates) :
                  /\ run.candidates[k].nodeA = nodes[i]
                  /\ run.candidates[k].nodeB = nodes[j]

\* C18: once getEmbedding has returned a non-empty vector for a text, a later
\* getEmbedding of that text returns the same vector without calling
\* embedContent; and in every interleaving the vector recorded under a node id
\* is empty or the embedding of the text of a node with that id.
C18_CachedByTextMatchedByKey ==
  /\ [][\A r \in 1..Len(runs) :
          LET run == runs[r]
              nodes == nodesToCheck(arg.nodes)
          IN (/\ run.pc = "embed" /\ run.i <= Len(nodes)
              /\ embeddingText(nodes[run.i]) \in DOMAIN returned
              /\ runs'[r] # run) =>
               /\ runs'[r].pc = "embed"
               /\ runs'[r].got[run.i] = returned[embeddingText(nodes[run.i])]]_vars
  /\ [](\A r \in 1..Len(runs) : \A id \in DOMAIN runs[r].nodeEmbeddings :
          \E i \in 1..Len(runs[r].got) :
            /\ arg.nodes[i].id = id
            /\ runs[r].nodeEmbeddings[id]
                 \in {<<>>, embedContent(embeddingText(arg.nodes[i]))})

Sorted(candidates) ==
  \A k \in 1..Len(candidates) : \A l \in 1..Len(candidates) :
    k < l => candidates[k].similarity >= candidates[l].similarity

AllAtLeast(candidates, threshold) ==
  \A k \in 1..Len(candidates) : candidates[k].similarity >= threshold

\* C20: the list detectDuplicates returns and the list detectDuplicatesSemantic
\* returns are each in non-increasing order of similarity, and every candidate
\* in them has similarity >= the threshold passed.
C20_SortedAndAboveThreshold ==
  /\ result.done =>
       /\ Sorted(result.candidates)
       /\ AllAtLeast(result.candidates, arg.threshold)
  /\ \A r \in 1..Len(runs) :
       runs[r].pc = "done" =>
         /\ Sorted(runs[r].candidates)
         /\ AllAtLeast(runs[r].candidates, arg.threshold)

\* both lists hold three candidates, the best one found second
C20_Witness ==
  /\ result.done /\ Len(result.candidates) = 3
  /\ result.candidates[1].similarity > result.candidates[2].similarity
  /\ result.candidates[1].nodeB = arg.nodes[3]
  /\ \E r \in 1..Len(runs) :
       /\ runs[r].pc = "done" /\ Len(runs[r].candidates) = 3
       /\ runs[r].candidates[1].similarity > runs[r].candidates[2].similarity
       /\ runs[r].candidates[1].nodeB = arg.nodes[3]

\* C19: when a duplicate candidate is accepted, the node kept is the one with
\* the strictly longer description, nodeA when the lengths are equal (a missing
\* description has length 0); the other node is the one dropped, and the
\* accepted candidate is no longer in the candidate list.
C19_KeepLongerDescription ==
  accepted.valid =>
    LET nodeA == accepted.candidate.nodeA
        nodeB == accepted.candidate.nodeB
        lengthA == IF "description" \in DOMAIN nodeA THEN Len(nodeA.description) ELSE 0
        lengthB == IF "description" \in DOMAIN nodeB THEN Len(nodeB.description) ELSE 0
        kept == IF lengthB > lengthA THEN nodeB ELSE nodeA
        other == IF lengthB > lengthA THEN nodeA ELSE nodeB
    IN /\ lastMerge.valid
       /\ lastMerge.keepId = kept.id
       /\ lastMerge.dropId = other.id
       /\ other.id \notin NodeIdSet(graph.nodes)
       /\ Len(dupeCandidates) = Len(accepted.before) - 1
       /\ \A l \in 1..Len(dupeCandidates) :
            dupeCandidates[l] =
              accepted.before[IF l < accepted.index THEN l ELSE l + 1]
       /\ \A l \in 1..Len(dupeCandidates) : dupeCandidates[l] # accepted.candidate

\* nodeB was kept for its strictly longer description, nodeA dropped
C19_Witness ==
  /\ accepted.valid
  /\ "description" \notin DOMAIN accepted.candidate.nodeA
  /\ "description" \in DOMAIN accepted.candidate.nodeB
  /\ Len(accepted.candidate.nodeB.description) = 1
  /\ lastMerge.keepId = accepted.candidate.nodeB.id
  /\ accepted.candidate.nodeB.id \in NodeIdSet(graph.nodes)
  /\ accepted.candidate.nodeA.id \notin NodeIdSet(graph.nodes)
  /\ Len(dupeCandidates) = 2

\* a node with this id is there and has a region that is not 'Unknown'
KnownRegion(nodes, id) ==
  \E i \in 1..Len(nodes) :
    /\ nodes[i].id = id
    /\ "region" \in DOMAIN nodes[i]
    /\ nodes[i].region # "Unknown"

RegionOfId(nodes, id) ==
  (CHOOSE i \in 1..Len(nodes) : nodes[i].id = id)

\* C21: isolationIndex is sameRegionEdges / validEdges, validEdges counting
\* exactly the edges whose two endpoints both exist with a region other than
\* 'Unknown', and 0 when there is no valid edge; it lies in [0,1], is 1.0 when
\* every valid edge joins nodes of one region and 0.0 when no edge has two
\* region-tagged endpoints.
C21_IsolationIndex ==
  result.done =>
    LET valid == {k \in 1..Len(arg.edges) :
                    /\ KnownRegion(arg.nodes, arg.edges[k].source)
                    /\ KnownRegion(arg.nodes, arg.edges[k].target)}
        same == {k \in valid :
                   arg.nodes[RegionOfId(arg.nodes, arg.edges[k].source)].region
                     = arg.nodes[RegionOfId(arg.nodes, arg.edges[k].target)].region}
        index == result.regional.isolationIndex
    IN /\ index = IF valid = {} THEN 0
                  ELSE Ratio(Cardinality(same), Cardinality(valid))
       /\ index >= 0 /\ index <= SCALE
       /\ (valid # {} /\ same = valid) => index = SCALE
       /\ valid = {} => index = 0

\* one of the two edges, both valid, joins nodes of one region, in a graph that
\* also has a node of unknown region
C21_Witness ==
  /\ result.done
  /\ result.regional.isolationIndex = 500000
  /\ Len(arg.edges) = 2
  /\ \E i \in 1..Len(arg.nodes) : regionOf(arg.nodes[i]) = "Unknown"

\* C22: a node with a known region has bridge score (incident edges whose other
\* endpoint exists with a different known region) x importance, for every
\* importance in [0,1], 0 included; a node without a known region has none.
C22_BridgeScore ==
  result.done =>
    \A i \in 1..Len(arg.nodes) :
      LET n == arg.nodes[i]
          other(k) == IF arg.edges[k].source = n.id THEN arg.edges[k].target
                      ELSE arg.edges[k].source
          bridging == {k \in 1..Len(arg.edges) :
                         /\ n.id \in {arg.edges[k].source, arg.edges[k].target}
                         /\ KnownRegion(arg.nodes, other(k))
                         /\ arg.nodes[RegionOfId(arg.nodes, other(k))].region # n.region}
      IN IF KnownRegion(arg.nodes, n.id)
         THEN /\ n.id \in DOMAIN result.regional.bridgeScores
              /\ result.regional.bridgeScores[n.id] = Cardinality(bridging) * n.importance
         ELSE n.id \notin DOMAIN result.regional.bridgeScores

\* C23: on integer vectors of any lengths cosineSimilarity returns 0 when a
\* vector is empty, the lengths differ or a norm is 0, and otherwise a value in
\* [0,1]; it is symmetric, 1 for two identical non-zero vectors and 0 for
\* orthogonal vectors.
C23_CosineSimilarity ==
  result.done =>
    LET vecA == arg.vecA
        vecB == arg.vecB
        degenerate == \/ Len(vecA) = 0 \/ Len(vecB) = 0 \/ Len(vecA) # Len(vecB)
                      \/ dotProduct(vecA, vecA) = 0 \/ dotProduct(vecB, vecB) = 0
    IN /\ degenerate => result.similarity = 0
       /\ ~degenerate => (result.similarity >= 0 /\ result.similarity <= SCALE)
       /\ result.similarity = cosineSimilarity(vecB, vecA)
       /\ (~degenerate /\ vecA = vecB) => result.similarity = SCALE
       /\ (~degenerate /\ dotProduct(vecA, vecB) = 0) => result.similarity = 0

DerivedNodeFields == {"degreeCentrality", "pagerank", "clustering", "community", "kCore"}

\* C25: enrichGraphWithMetrics leaves the graph it is given as it was and
\* returns the same nodes in the same order, every field but the derived ones
\* unchanged, and the same edges in the same order, every field but sign and
\* certainty unchanged and those two kept where they were there; it adds the
\* derived node fields and the meta values.
C25_EnrichFrame ==
  /\ [][(~result.done /\ result'.done) => arg' = arg]_vars
  /\ [](result.done =>
          /\ Len(result.graph.nodes) = Len(arg.nodes)
          /\ \A i \in 1..Len(arg.nodes) :
               LET before == arg.nodes[i]
                   after == result.graph.nodes[i]
               IN /\ DOMAIN after = DOMAIN before \cup DerivedNodeFields
                  /\ \A f \in DOMAIN before \ DerivedNodeFields : after[f] = before[f]
          /\ Len(result.graph.edges) = Len(arg.edges)
          /\ \A i \in 1..Len(arg.edges) :
               LET before == arg.edges[i]
                   after == result.graph.edges[i]
               IN /\ DOMAIN after = DOMAIN before
                  /\ \A f \in DOMAIN before \ {"sign", "certainty"} : after[f] = before[f]
                  /\ before.sign # Undefined => after.sign = before.sign
                  /\ before.certainty # Undefined => after.certainty = before.certainty
          /\ result.graph.meta.defined)

\* a second pass: the nodes came in with derived fields, next to an edge whose
\* sign, negative against its label, the pass kept
C25_Witness ==
  /\ result.done
  /\ arg.meta.defined
  /\ Len(arg.nodes) = 2
  /\ \E i \in 1..Len(arg.nodes) :
       /\ "pagerank" \in DOMAIN arg.nodes[i]
       /\ arg.nodes[i].id = result.graph.nodes[i].id
       /\ arg.nodes[i].label = result.graph.nodes[i].label
  /\ \E i \in 1..Len(arg.edges) :
       /\ arg.edges[i].sign = "negative"
       /\ ~isNegative(arg.edges[i].label)

C27_MergeIdsAreStoredNodes ==
  accepted.valid => lastMerge.both

\* C28: after any sequence of store operations selectedNodeIds holds no id
\* twice and every id in it is the id of a node of the stored graph.
C28_SelectionWithinGraph ==
  /\ \A i \in 1..Len(selectedNodeIds) : \A j \in 1..Len(selectedNodeIds) :
       selectedNodeIds[i] = selectedNodeIds[j] => i = j
  /\ \A i \in 1..Len(selectedNodeIds) :
       selectedNodeIds[i] \in NodeIdSet(graph.nodes)

\* C29: isThinking is true whenever a chat, an expansion or a semantic
\* grooming is in flight, and at most one chat is in flight at a time
C29_ThinkingWhileInFlight ==
  /\ inFlight # <<>> => isThinking
  /\ inFlightOf("chat") <= 1

\* C24: once a store operation has replaced the graph, the graph in memory is
\* the one the latest such operation stored, and so is the persisted snapshot
\* once no storage request is pending
C24_NoMutationLost ==
  lastMutation.valid =>
    /\ graph = lastMutation.graph
    /\ storageOps = <<>> => snapshot.present /\ snapshot.graph = lastMutation.graph

\* C30: when storage.load returns to initGraph and the storage holds a
\* snapshot, the stored graph becomes that snapshot, the seed not installed
C30_SeedOnlyWithoutSnapshot ==
  [][(StorageLoad /\ snapshot.present) => graph' = snapshot.graph]_vars

====
